---- MODULE Spec2Model ----
(***************************************************************************)
(* Model of the real-time compositor (src/core/compositor.py): the         *)
(* DataSource adapters, the RealTimeCompositor aggregator with its lock,   *)
(* its bounded event buffer, its rate window, its counters, its subscriber *)
(* fan-out and its background worker.  Every method is translated step by  *)
(* step: one step per region the lock (or the interpreter) makes atomic.   *)
(***************************************************************************)
EXTENDS Integers, Sequences, FiniteSets, TLC

(***************************************************************************)
(* Bounds of the model.                                                    *)
(***************************************************************************)
MaxEvents == 3        \* CompositionEvent objects constructed in one run
MaxTime == 2          \* readings of the wall clock: 0..MaxTime
MaxAdapters == 2      \* DataSource objects constructed in one run
MaxCallbacks == 2     \* length of the callbacks list
MaxCount == 3         \* largest count handed to get_recent_events
MaxBuffer == 5        \* longest buffer the get_recent_events cases start from
Capacity == 2         \* max_events handed to the constructor
Window == 1           \* window_seconds handed to the constructor
MaxLines == 3         \* lines written to the watched files in one run
MaxEntries == 3       \* max_entries handed to the LogMonitor constructor
MaxProduced == 3      \* LogEntry objects constructed in one run, scans included

\* Two threads run the methods that take several steps (emit, receive_event,
\* the rate and the views).  The methods that are one atomic step are called
\* by the main thread: it is never inside another method, so it calls them
\* at any time, which covers their calls by every other thread.
Threads == {"t1", "t2"}
Main == "main"
Worker == "w"
Procs == Threads \cup {Worker}
Names == {"A", "B"}
Types == {"log_entry", "log_error"}
\* Subscriber functions: "ok" returns, "boom" raises an Exception.
Callbacks == {"ok", "boom"}
\* A subscriber that writes to the data mapping of the event it is called with.
Mutating == {"edit"}
Subscribers == Callbacks \cup Mutating
Raising == {"boom"}

None == "None"
NoEvent == [id |-> 0, source |-> None, event_type |-> None, data |-> None,
            timestamp |-> 0]
NoRet == [op |-> None]

(***************************************************************************)
(* Python values: dicts, slices, truthiness.                               *)
(***************************************************************************)
EmptyDict == [k \in {} |-> 0]

\* d.get(k, default)
DictGet(d, k, default) == IF k \in DOMAIN d THEN d[k] ELSE default

\* d[k] = v
DictPut(d, k, v) == [x \in (DOMAIN d) \cup {k} |-> IF x = k THEN v ELSE d[x]]

\* del d[k]
DictDel(d, k) == [x \in (DOMAIN d) \ {k} |-> d[x]]

RECURSIVE SumOver(_, _)
SumOver(d, keys) ==
    IF keys = {} THEN 0
    ELSE LET k == CHOOSE x \in keys : TRUE
         IN d[k] + SumOver(d, keys \ {k})

\* sum(d.values())
DictSum(d) == SumOver(d, DOMAIN d)

Min(a, b) == IF a < b THEN a ELSE b
Max(a, b) == IF a > b THEN a ELSE b

\* seq[start:] for any integer start, as Python slices it
PySliceFrom(seq, start) ==
    LET n == Len(seq)
        from == IF start < 0 THEN Max(n + start, 0) ELSE Min(start, n)
    IN SubSeq(seq, from + 1, n)

\* bool(s) of an optional string argument: None and "" are false
Truthy(s) == s # None /\ s # ""

\* [e for e in seq if e.field == value]
RECURSIVE SelectBy(_, _, _)
SelectBy(seq, field, value) ==
    IF seq = <<>> THEN <<>>
    ELSE LET rest == SelectBy(Tail(seq), field, value)
         IN IF Head(seq)[field] = value THEN <<Head(seq)>> \o rest ELSE rest

VARIABLES
    now,            \* the wall clock, datetime.now()
    lock,           \* self._lock: its holder, or None
    max_events,     \* self.max_events
    window_seconds, \* self.window_seconds
    events,         \* self.events, a deque(maxlen=max_events)
    window_events,  \* self.window_events
    sources,        \* self.sources: name -> index of the DataSource in adapters
    adapters,       \* every DataSource constructed so far: name, enabled, event_count
    callbacks,      \* self.callbacks
    source_counts,  \* self.source_counts
    type_counts,    \* self.type_counts
    total_events,   \* self.total_events
    running,        \* self.running
    producers,      \* the threads that call emit / receive_event; the others read
    disk,           \* the file export_events writes: its format and objects
    wrote,          \* history: how many event objects the last export_events call wrote
    watchdog,       \* WATCHDOG_AVAILABLE: notification-driven (TRUE) or poll-driven
    fs,             \* the file system: per file, whether it exists and its lines
    nextLine,       \* identity of the next line written to a file
    watched_paths,  \* LogMonitor.watched_paths
    file_positions, \* LogMonitor.file_positions: filepath -> offset in bytes
    entries,        \* LogMonitor.entries, a deque(maxlen=max_entries)
    stats,          \* LogMonitor.stats
    mon_running,    \* LogMonitor.running
    observer,       \* LogMonitor.observer: the watchdog Observer, if any
    on_entry_callback, \* LogMonitor.on_entry_callback
    tail,           \* per observing thread: where it is in poll_loop / _handle_file_change
    produced,       \* history: every LogEntry constructed, in order
    mret,           \* how the last LogMonitor call of the main thread ended
    tokens,         \* TokenManager.tokens: token hash -> token data
    token_file,     \* the JSON file at TokenManager.storage_path
    writable,       \* whether that file can be opened for writing
    issued,         \* history: every token generated, in order
    nextId,         \* identity of the next CompositionEvent constructed
    accepted,       \* history: events appended since the last clear, in order
    delivered,      \* history: per subscriber function, the event ids it was called with
    pc,             \* per thread: where it is in the method it runs
    cur,            \* per thread: the event of its receive_event call
    idx,            \* per thread: position of its iteration over self.callbacks
    local,          \* per thread: local values of the method it runs
    caller,         \* per thread: the method that called _clean_window_events
    ret             \* per thread: how its last call ended, and with what value

aggVars == <<events, window_events, source_counts, type_counts, total_events>>
regVars == <<sources, adapters>>
\* What no method of the compositor writes, export_events apart.
monVars == <<watchdog, fs, nextLine, watched_paths, file_positions, entries, stats,
            mon_running, observer, on_entry_callback, tail, produced, mret>>
tokVars == <<tokens, token_file, writable, issued>>
extVars == <<disk, wrote, monVars, tokVars>>
cfgVars == <<max_events, window_seconds, producers, extVars>>
histVars == <<accepted, delivered>>
thrVars == <<pc, cur, idx, local, caller, ret>>
vars == <<now, lock, cfgVars, aggVars, regVars, callbacks, running, nextId,
          histVars, thrVars>>

NoLocal == [cutoff |-> 0, adapter |-> 0, count |-> 0, event_type |-> None, snap |-> None]

\* RealTimeCompositor.__init__
InitCompositor(cap, win) ==
    /\ max_events = cap
    /\ window_seconds = win
    /\ events = <<>>
    /\ sources = EmptyDict
    /\ callbacks = <<>>
    /\ lock = None
    /\ source_counts = EmptyDict
    /\ type_counts = EmptyDict
    /\ total_events = 0
    /\ window_events = <<>>
    /\ running = FALSE

(***************************************************************************)
(* LogMonitor: paths, files and construction                               *)
(***************************************************************************)
\* One directory with two files in it, and a path that does not exist.
\* A file is known by its name; Chars gives the name letter by letter.
Dir == "logs"
Files == {"app.log", "notes.md"}
Missing == "missing"
Paths == {Dir, Missing} \cup Files

Chars(f) ==
    IF f = "app.log" THEN <<"a", "p", "p", ".", "l", "o", "g">>
    ELSE IF f = "notes.md" THEN <<"n", "o", "t", "e", "s", ".", "m", "d">>
    ELSE <<"m", "i", "s", "s", "i", "n", "g">>

\* LogMonitor.LOG_EXTENSIONS
LOG_EXTENSIONS ==
    { <<".", "l", "o", "g">>, <<".", "t", "x", "t">>, <<".", "o", "u", "t">>,
      <<".", "e", "r", "r">>, <<".", "s", "y", "s", "l", "o", "g">> }

\* str.lower() of one letter
UpperCase == <<"A", "B", "C", "D", "E", "F", "G", "H", "I", "J", "K", "L", "M",
               "N", "O", "P", "Q", "R", "S", "T", "U", "V", "W", "X", "Y", "Z">>
LowerCase == <<"a", "b", "c", "d", "e", "f", "g", "h", "i", "j", "k", "l", "m",
               "n", "o", "p", "q", "r", "s", "t", "u", "v", "w", "x", "y", "z">>

LowerChar(c) ==
    IF \E i \in DOMAIN UpperCase : UpperCase[i] = c
    THEN LowerCase[CHOOSE i \in DOMAIN UpperCase : UpperCase[i] = c]
    ELSE c

Lower(name) == [i \in DOMAIN name |-> LowerChar(name[i])]

\* Path.suffix: the name from its last dot on, when that dot is neither the
\* first nor the last letter; else the empty string
Suffix(name) ==
    LET dots == {i \in DOMAIN name : name[i] = "."}
    IN IF dots = {} THEN <<>>
       ELSE LET last == CHOOSE i \in dots : \A j \in dots : j <= i
            IN IF last = 1 \/ last = Len(name) THEN <<>>
               ELSE SubSeq(name, last, Len(name))

\* sub in text, for strings
Contains(text, sub) ==
    \E i \in 1..(Len(text) - Len(sub) + 1) : SubSeq(text, i, i + Len(sub) - 1) = sub

\* LogMonitor.LEVEL_PATTERNS, in the order the dict is written
LEVEL_PATTERNS ==
    << [level |-> "error",
        patterns |-> << <<"e", "r", "r", "o", "r">>, <<"e", "r", "r">>,
                        <<"c", "r", "i", "t", "i", "c", "a", "l">>,
                        <<"f", "a", "t", "a", "l">>,
                        <<"e", "x", "c", "e", "p", "t", "i", "o", "n">>,
                        <<"f", "a", "i", "l">> >>],
       [level |-> "warning",
        patterns |-> << <<"w", "a", "r", "n", "i", "n", "g">>, <<"w", "a", "r", "n">>,
                        <<"c", "a", "u", "t", "i", "o", "n">> >>],
       [level |-> "info",
        patterns |-> << <<"i", "n", "f", "o">>, <<"n", "o", "t", "i", "c", "e">> >>],
       [level |-> "debug",
        patterns |-> << <<"d", "e", "b", "u", "g">>, <<"t", "r", "a", "c", "e">> >>] >>

\* the loops of _detect_level over the groups and their patterns
RECURSIVE FirstLevel(_, _)
FirstLevel(groups, text) ==
    IF groups = <<>> THEN None
    ELSE IF \E k \in DOMAIN Head(groups).patterns :
                Contains(text, Head(groups).patterns[k])
         THEN Head(groups).level
         ELSE FirstLevel(Tail(groups), text)

DetectLevelCaseSensitive(content) == FirstLevel(LEVEL_PATTERNS, content)

\* LogMonitor._detect_level
DetectLevel(content) == FirstLevel(LEVEL_PATTERNS, Lower(content))

\* LogMonitor._is_log_file
IsLogFile(f) ==
    \/ Lower(Suffix(Chars(f))) \in LOG_EXTENSIONS
    \/ Contains(Lower(Chars(f)), <<"l", "o", "g">>)

\* A line of a file is known by its identity, a positive number; an empty
\* line is 0. A line with text takes two bytes (a letter and the newline),
\* an empty line one.
LineBytes(l) == IF l = 0 THEN 1 ELSE 2

RECURSIVE Bytes(_)
Bytes(lines) == IF lines = <<>> THEN 0 ELSE LineBytes(Head(lines)) + Bytes(Tail(lines))

\* f.seek(pos); f.readlines(): the lines that start at or after byte pos,
\* after the rest of the line that pos falls into, which is its newline.
RECURSIVE ReadFrom(_, _)
ReadFrom(lines, pos) ==
    IF lines = <<>> THEN <<>>
    ELSE LET n == LineBytes(Head(lines))
         IN IF pos <= 0 THEN lines
            ELSE IF pos >= n THEN ReadFrom(Tail(lines), pos - n)
            ELSE <<0>> \o Tail(lines)

\* f.tell() after seek(pos) and readlines()
TellAfter(lines, pos) == Max(pos, Bytes(lines))

NoFileAt == [exists |-> FALSE, lines |-> <<>>]

\* Path.exists(), is_file(), is_dir()
IsFile(p) == p \in Files /\ fs[p].exists
IsDir(p) == p = Dir
Exists(p) == IsFile(p) \/ IsDir(p)

\* The threads that observe files: the watchdog observer's thread and the
\* poll loops.
ObserverThread == "obs"
Pollers == {"p1", "p2"}
TailThreads == {ObserverThread} \cup Pollers

\* reset is history: the thread found the file smaller than its recorded
\* position.  failed is history: the thread's last call of
\* _handle_file_change ended in its except clause on a failed stat or open.
NoTail == [pc |-> "off", filepath |-> None, last_pos |-> 0, current_size |-> 0,
           new_lines |-> <<>>, i |-> 0, todo |-> <<>>, reset |-> FALSE,
           failed |-> FALSE]

NoObserver == [exists |-> FALSE, started |-> FALSE, scheduled |-> {}]

NoMret == [op |-> None]

\* LogMonitor.__init__, with the files of the directory as they are found
InitMonitor(wd) ==
    /\ watchdog = wd
    /\ fs = [f \in Files |-> [exists |-> TRUE, lines |-> <<>>]]
    /\ nextLine = 1
    /\ watched_paths = {}
    /\ file_positions = EmptyDict
    /\ entries = <<>>
    /\ stats = [total_entries |-> 0, files_monitored |-> 0]
    /\ mon_running = FALSE
    /\ observer = NoObserver
    /\ on_entry_callback = None
    /\ tail = [t \in TailThreads |-> NoTail]
    /\ produced = <<>>
    /\ mret = NoMret

\* The file that does not exist.
NoFile == [format |-> None, objects |-> <<>>]

\* Nothing outside the compositor has been written yet.
InitExternal ==
    /\ disk = NoFile
    /\ wrote = 0
    /\ tokens = EmptyDict
    /\ token_file = EmptyDict
    /\ writable = TRUE
    /\ issued = <<>>

InitThreads ==
    /\ pc = [p \in Procs |-> IF p = Worker THEN "off" ELSE "idle"]
    /\ cur = [p \in Threads |-> NoEvent]
    /\ idx = [p \in Threads |-> 0]
    /\ local = [p \in Procs |-> NoLocal]
    /\ caller = [p \in Procs |-> None]
    /\ ret = [p \in Threads \cup {Main} |-> NoRet]

\* The state after construction, with the threads prod producing events.
InitWith(prod) ==
    /\ InitCompositor(Capacity, Window)
    /\ InitThreads
    /\ now = 0
    /\ adapters = <<>>
    /\ producers = prod
    /\ InitExternal
    /\ InitMonitor(TRUE)
    /\ nextId = 1
    /\ accepted = <<>>
    /\ delivered = [c \in Subscribers |-> <<>>]

Init == InitWith(Threads)

\* The state after construction and add_callback(cb).
InitSubscribed(prod, cb) ==
    /\ max_events = Capacity
    /\ window_seconds = Window
    /\ events = <<>>
    /\ sources = EmptyDict
    /\ callbacks = <<cb>>
    /\ lock = None
    /\ source_counts = EmptyDict
    /\ type_counts = EmptyDict
    /\ total_events = 0
    /\ window_events = <<>>
    /\ running = FALSE
    /\ InitThreads
    /\ now = 0
    /\ adapters = <<>>
    /\ producers = prod
    /\ InitExternal
    /\ InitMonitor(TRUE)
    /\ nextId = 1
    /\ accepted = <<>>
    /\ delivered = [c \in Subscribers |-> <<>>]

\* The wall clock advances between any two steps.
Tick ==
    /\ now < MaxTime
    /\ now' = now + 1
    /\ UNCHANGED <<lock, cfgVars, aggVars, regVars, callbacks, running, nextId,
                   histVars, thrVars>>

Idle(t) == pc[t] = "idle"

\* A method of one atomic step returns r to the main thread.
Returns(r) ==
    /\ ret' = [ret EXCEPT ![Main] = r]
    /\ UNCHANGED <<pc, cur, idx, local, caller>>

\* A thread leaves a method: its locals are gone, its result is r.
Return(t, r) ==
    /\ pc' = [pc EXCEPT ![t] = "idle"]
    /\ cur' = [cur EXCEPT ![t] = NoEvent]
    /\ idx' = [idx EXCEPT ![t] = 0]
    /\ local' = [local EXCEPT ![t] = NoLocal]
    /\ caller' = [caller EXCEPT ![t] = None]
    /\ ret' = [ret EXCEPT ![t] = r]

(***************************************************************************)
(* register_source / unregister_source                                     *)
(***************************************************************************)
\* register_source without the test "name not in self.sources": every call
\* constructs a DataSource.
RegisterEffectAlwaysNew(name) ==
    [sources |-> DictPut(sources, name, Len(adapters) + 1),
     adapters |-> Append(adapters,
                         [name |-> name, enabled |-> TRUE, event_count |-> 0]),
     source_counts |-> DictPut(source_counts, name, 0)]

\* The body of register_source under the lock: the new sources, adapters
\* and source_counts.
RegisterEffect(name) ==
    IF name \notin DOMAIN sources
    THEN [sources |-> DictPut(sources, name, Len(adapters) + 1),
          adapters |-> Append(adapters,
                              [name |-> name, enabled |-> TRUE, event_count |-> 0]),
          source_counts |-> DictPut(source_counts, name, 0)]
    ELSE [sources |-> sources, adapters |-> adapters,
          source_counts |-> source_counts]

RegisterSource(name) ==
    /\ lock = None
    /\ Len(RegisterEffect(name).adapters) <= MaxAdapters
    /\ LET eff == RegisterEffect(name)
       IN /\ sources' = eff.sources
          /\ adapters' = eff.adapters
          /\ source_counts' = eff.source_counts
          /\ Returns([op |-> "adapter", adapter |-> eff.sources[name]])
    /\ UNCHANGED <<now, lock, cfgVars, events, window_events, type_counts,
                   total_events, callbacks, running, nextId, histVars>>

UnregisterSource(name) ==
    /\ lock = None
    /\ sources' = IF name \in DOMAIN sources THEN DictDel(sources, name) ELSE sources
    /\ Returns(NoRet)
    /\ UNCHANGED <<now, lock, cfgVars, aggVars, adapters, callbacks, running,
                   nextId, histVars>>

(***************************************************************************)
(* receive_event                                                           *)
(***************************************************************************)
\* CompositionEvent(source, event_type, data): the timestamp is read from
\* the clock when the object is constructed, before the lock is taken.
NewEvent(source, event_type) ==
    [id |-> nextId, source |-> source, event_type |-> event_type,
     data |-> "payload", timestamp |-> now]

\* A list that is never trimmed, in place of the deque(maxlen=cap).
DequeAppendUnbounded(dq, e, cap) == Append(dq, e)

\* appendleft in place of append: the newest event goes to the front.
DequeAppendLeft(dq, e, cap) ==
    IF cap = 0 THEN <<>>
    ELSE IF Len(dq) >= cap THEN <<e>> \o SubSeq(dq, 1, Len(dq) - 1)
    ELSE <<e>> \o dq

\* deque.append on a deque(maxlen=cap)
DequeAppend(dq, e, cap) ==
    IF cap = 0 THEN <<>>
    ELSE IF Len(dq) >= cap THEN Append(Tail(dq), e)
    ELSE Append(dq, e)

\* Threads that are inside emit and have not constructed their event yet.
Emitting == {p \in Threads : pc[p] \in {"emit_store", "rx_new"}}

\* The bound on constructed events leaves room for the emits under way.
RoomForEvent == nextId + Cardinality(Emitting) <= MaxEvents

\* receive_event called directly: the event is constructed first.
ReceiveEvent(t, source, event_type) ==
    /\ Idle(t)
    /\ t \in producers
    /\ RoomForEvent
    /\ cur' = [cur EXCEPT ![t] = NewEvent(source, event_type)]
    /\ nextId' = nextId + 1
    /\ pc' = [pc EXCEPT ![t] = "rx_lock"]
    /\ ret' = [ret EXCEPT ![t] = NoRet]
    /\ UNCHANGED <<now, lock, cfgVars, aggVars, regVars, callbacks, running,
                   histVars, idx, local, caller>>

\* The with block that never ends: the lock stays with the thread while it
\* calls the subscribers.
HeldThroughCallbacks(t) == t

\* The holder of the lock when the with block of receive_event is left,
\* before the loop over the callbacks: nobody.
HeldAfterUpdate(t) == None

\* with self._lock: the appends and the counters
ReceiveLocked(t) ==
    /\ pc[t] = "rx_lock"
    /\ lock = None
    /\ LET e == cur[t]
       IN /\ events' = DequeAppend(events, e, max_events)
          /\ window_events' = Append(window_events, e)
          /\ total_events' = total_events + 1
          /\ source_counts' =
                 DictPut(source_counts, e.source, DictGet(source_counts, e.source, 0) + 1)
          /\ type_counts' =
                 DictPut(type_counts, e.event_type,
                         DictGet(type_counts, e.event_type, 0) + 1)
          /\ accepted' = Append(accepted, e)
    /\ lock' = HeldAfterUpdate(t)
    /\ pc' = [pc EXCEPT ![t] = "rx_notify"]
    /\ idx' = [idx EXCEPT ![t] = 1]
    /\ UNCHANGED <<now, cfgVars, regVars, callbacks, running, nextId,
                   delivered, cur, local, caller, ret>>

\* No try/except around callback(event): the exception leaves receive_event.
OnCallbackErrorPropagate == "propagate"

\* What the except clause around callback(event) does with an Exception:
\* "continue" goes on with the next callback.
OnCallbackError == "continue"

\* What a write to event.data by a subscriber does to a list that holds
\* the event object with identity id.
Written(seq, id) ==
    [i \in DOMAIN seq |->
        IF seq[i].id = id THEN [seq[i] EXCEPT !.data = "edited"] ELSE seq[i]]

\* for callback in self.callbacks: one iteration, or the end of the loop.
\* callback(event) is called with the object that events and window_events
\* hold: what a subscriber writes to it is written there too.
Notify(t) ==
    /\ pc[t] = "rx_notify"
    /\ IF idx[t] <= Len(callbacks)
       THEN LET cb == callbacks[idx[t]]
                edits == cb \in Mutating
            IN /\ delivered' = [delivered EXCEPT ![cb] = Append(@, cur[t].id)]
               /\ events' = IF edits THEN Written(events, cur[t].id) ELSE events
               /\ window_events' =
                      IF edits THEN Written(window_events, cur[t].id)
                      ELSE window_events
               /\ IF cb \in Raising /\ OnCallbackError # "continue"
                  THEN Return(t, [op |-> "raised"])
                  ELSE /\ idx' = [idx EXCEPT ![t] = idx[t] + 1]
                       /\ cur' = IF edits THEN [cur EXCEPT ![t].data = "edited"]
                                 ELSE cur
                       /\ UNCHANGED <<pc, local, caller, ret>>
       ELSE /\ Return(t, NoRet)
            /\ UNCHANGED <<delivered, events, window_events>>
    /\ UNCHANGED <<now, lock, cfgVars, source_counts, type_counts, total_events,
                   regVars, callbacks, running, nextId, accepted>>

(***************************************************************************)
(* clear                                                                   *)
(***************************************************************************)
\* A clear that also forgets the subscribers.
ClearAndUnsubscribe ==
    /\ lock = None
    /\ events' = <<>>
    /\ window_events' = <<>>
    /\ source_counts' = EmptyDict
    /\ type_counts' = EmptyDict
    /\ total_events' = 0
    /\ accepted' = <<>>
    /\ callbacks' = <<>>
    /\ Returns(NoRet)
    /\ UNCHANGED <<now, lock, cfgVars, regVars, running, nextId, delivered>>

Clear ==
    /\ lock = None
    /\ events' = <<>>
    /\ window_events' = <<>>
    /\ source_counts' = EmptyDict
    /\ type_counts' = EmptyDict
    /\ total_events' = 0
    /\ accepted' = <<>>
    /\ Returns(NoRet)
    /\ UNCHANGED <<now, lock, cfgVars, regVars, callbacks, running, nextId,
                   delivered>>

(***************************************************************************)
(* DataSource: emit, disable, enable                                       *)
(***************************************************************************)
\* emit without the test of enabled
EmitAllowedAlways(a) == TRUE

\* if self.enabled
EmitAllowed(a) == adapters[a].enabled

\* emit on a DataSource some caller still holds (registered or not): the
\* test of enabled and the read of event_count for "+= 1".
Emit(t, a, event_type) ==
    /\ Idle(t)
    /\ t \in producers
    /\ a \in DOMAIN adapters
    /\ IF EmitAllowed(a)
       THEN /\ RoomForEvent
            /\ pc' = [pc EXCEPT ![t] = "emit_store"]
            /\ local' = [local EXCEPT ![t] =
                             [NoLocal EXCEPT !.adapter = a,
                                             !.count = adapters[a].event_count,
                                             !.event_type = event_type]]
            /\ ret' = [ret EXCEPT ![t] = NoRet]
            /\ UNCHANGED <<cur, idx, caller>>
       ELSE Return(t, [op |-> "dropped"])
    /\ UNCHANGED <<now, lock, cfgVars, aggVars, regVars, callbacks, running,
                   nextId, histVars>>

\* self.event_count += 1: the store of the value read, plus one
EmitStore(t) ==
    /\ pc[t] = "emit_store"
    /\ adapters' = [adapters EXCEPT ![local[t].adapter].event_count =
                                        local[t].count + 1]
    /\ pc' = [pc EXCEPT ![t] = "rx_new"]
    /\ UNCHANGED <<now, lock, cfgVars, aggVars, sources, callbacks, running,
                   nextId, histVars, cur, idx, local, caller, ret>>

\* self.compositor.receive_event(source=self.name, ...): the construction
EmitForward(t) ==
    /\ pc[t] = "rx_new"
    /\ cur' = [cur EXCEPT ![t] =
                   NewEvent(adapters[local[t].adapter].name, local[t].event_type)]
    /\ nextId' = nextId + 1
    /\ pc' = [pc EXCEPT ![t] = "rx_lock"]
    /\ UNCHANGED <<now, lock, cfgVars, aggVars, regVars, callbacks, running,
                   histVars, idx, local, caller, ret>>

SetEnabled(a, value) ==
    /\ a \in DOMAIN adapters
    /\ adapters' = [adapters EXCEPT ![a].enabled = value]
    /\ Returns(NoRet)
    /\ UNCHANGED <<now, lock, cfgVars, aggVars, sources, callbacks, running,
                   nextId, histVars>>

Disable(a) == SetEnabled(a, FALSE)

Enable(a) == SetEnabled(a, TRUE)

(***************************************************************************)
(* add_callback / remove_callback                                          *)
(***************************************************************************)
\* list.remove(x): the first occurrence goes
RECURSIVE ListRemove(_, _)
ListRemove(seq, x) ==
    IF seq = <<>> THEN <<>>
    ELSE IF Head(seq) = x THEN Tail(seq)
    ELSE <<Head(seq)>> \o ListRemove(Tail(seq), x)

InList(seq, x) == \E i \in DOMAIN seq : seq[i] = x

AddCallback(cb) ==
    /\ Len(callbacks) < MaxCallbacks
    /\ callbacks' = Append(callbacks, cb)
    /\ Returns(NoRet)
    /\ UNCHANGED <<now, lock, cfgVars, aggVars, regVars, running, nextId, histVars>>

RemoveCallback(cb) ==
    /\ callbacks' = IF InList(callbacks, cb) THEN ListRemove(callbacks, cb)
                    ELSE callbacks
    /\ Returns(NoRet)
    /\ UNCHANGED <<now, lock, cfgVars, aggVars, regVars, running, nextId, histVars>>

(***************************************************************************)
(* _clean_window_events / get_events_per_second                            *)
(***************************************************************************)
\* cutoff = datetime.now().timestamp() - self.window_seconds
Cutoff == now - window_seconds

\* while self.window_events and self.window_events[0].timestamp < cutoff:
\*     self.window_events.popleft()
RECURSIVE PruneWindow(_, _)
PruneWindow(win, cutoff) ==
    IF win # <<>> /\ Head(win).timestamp < cutoff
    THEN PruneWindow(Tail(win), cutoff)
    ELSE win

\* len(self.window_events) / self.window_seconds as the fraction num/den;
\* 0.0 when the window is empty
Rate(win) ==
    IF win = <<>> THEN [num |-> 0, den |-> 1]
    ELSE [num |-> Len(win), den |-> window_seconds]

\* round(rate, 2), in hundredths
Round2(rate) == (200 * rate.num + rate.den) \div (2 * rate.den)

\* get_events_per_second called from outside: _clean_window_events reads the clock
GetEventsPerSecond(t) ==
    /\ Idle(t)
    /\ t \notin producers
    /\ pc' = [pc EXCEPT ![t] = "clean_lock"]
    /\ local' = [local EXCEPT ![t] = [NoLocal EXCEPT !.cutoff = Cutoff]]
    /\ caller' = [caller EXCEPT ![t] = "eps"]
    /\ ret' = [ret EXCEPT ![t] = NoRet]
    /\ UNCHANGED <<now, lock, cfgVars, aggVars, regVars, callbacks, running,
                   nextId, histVars, cur, idx>>

\* Where a caller of _clean_window_events goes on.
AfterClean(c) ==
    CASE c = "snapshot" -> "snap_lock"
      [] c = "worker" -> "w_sleep"
      [] OTHER -> "eps_read"

\* _clean_window_events: with self._lock, the pruning.  The lock is not
\* reentrant: a thread that holds it waits here like any other.
CleanLocked(p) ==
    /\ pc[p] = "clean_lock"
    /\ lock = None
    /\ window_events' = PruneWindow(window_events, local[p].cutoff)
    /\ pc' = [pc EXCEPT ![p] = AfterClean(caller[p])]
    /\ UNCHANGED <<now, lock, cfgVars, events, source_counts, type_counts,
                   total_events, regVars, callbacks, running, nextId, histVars,
                   cur, idx, local, caller, ret>>

\* get_events_per_second: with self._lock, the rate; then what the caller
\* (get_snapshot, get_stats) does with it before it releases its own lock.
EpsRead(t) ==
    /\ pc[t] = "eps_read"
    /\ lock = None
    /\ LET rate == Rate(window_events)
       IN CASE caller[t] = "snapshot_eps" ->
                 /\ Return(t, [op |-> "snapshot",
                               snap |-> local[t].snap,
                               events_per_second |-> rate])
                 /\ lock' = None
            [] caller[t] = "stats_eps" ->
                 /\ Return(t, [op |-> "stats",
                               stats |-> local[t].snap,
                               events_per_second |-> Round2(rate)])
                 /\ lock' = None
            [] OTHER ->
                 /\ Return(t, [op |-> "rate", rate |-> rate,
                               cutoff |-> local[t].cutoff])
                 /\ UNCHANGED lock
    /\ UNCHANGED <<now, cfgVars, aggVars, regVars, callbacks, running, nextId,
                   histVars>>

(***************************************************************************)
(* get_snapshot / get_stats                                                *)
(***************************************************************************)
\* get_snapshot: its first call of _clean_window_events reads the clock
GetSnapshot(t, recent_count) ==
    /\ Idle(t)
    /\ t \notin producers
    /\ pc' = [pc EXCEPT ![t] = "clean_lock"]
    /\ local' = [local EXCEPT ![t] = [NoLocal EXCEPT !.cutoff = Cutoff,
                                                    !.count = recent_count]]
    /\ caller' = [caller EXCEPT ![t] = "snapshot"]
    /\ ret' = [ret EXCEPT ![t] = NoRet]
    /\ UNCHANGED <<now, lock, cfgVars, aggVars, regVars, callbacks, running,
                   nextId, histVars, cur, idx>>

\* get_snapshot: with self._lock, the copies; the lock stays held while
\* self.get_events_per_second() is evaluated for the last field.
SnapshotLocked(t) ==
    /\ pc[t] = "snap_lock"
    /\ lock = None
    /\ lock' = t
    /\ local' = [local EXCEPT ![t].snap =
                     [recent_events |-> PySliceFrom(events, -local[t].count),
                      timestamp |-> now,
                      sources |-> source_counts,
                      event_types |-> type_counts,
                      total_events |-> total_events],
                 ![t].cutoff = Cutoff]
    /\ caller' = [caller EXCEPT ![t] = "snapshot_eps"]
    /\ pc' = [pc EXCEPT ![t] = "clean_lock"]
    /\ UNCHANGED <<now, cfgVars, aggVars, regVars, callbacks, running, nextId,
                   histVars, cur, idx, ret>>

\* get_stats: with self._lock, the fields before "events_per_second"; the
\* lock stays held while self.get_events_per_second() is evaluated.
GetStats(t) ==
    /\ Idle(t)
    /\ t \notin producers
    /\ lock = None
    /\ lock' = t
    /\ local' = [local EXCEPT ![t] =
                     [NoLocal EXCEPT !.snap =
                          [total_events |-> total_events,
                           events_in_memory |-> Len(events),
                           events_in_window |-> Len(window_events)],
                      !.cutoff = Cutoff]]
    /\ caller' = [caller EXCEPT ![t] = "stats_eps"]
    /\ pc' = [pc EXCEPT ![t] = "clean_lock"]
    /\ ret' = [ret EXCEPT ![t] = NoRet]
    /\ UNCHANGED <<now, cfgVars, aggVars, regVars, callbacks, running, nextId,
                   histVars, cur, idx>>

(***************************************************************************)
(* get_recent_events                                                       *)
(***************************************************************************)
\* The slice taken before the filters instead of after them.
RecentEventsSliceFirst(buf, count, source, event_type) ==
    LET cut == PySliceFrom(buf, -count)
        bySource == IF Truthy(source) THEN SelectBy(cut, "source", source) ELSE cut
    IN IF Truthy(event_type) THEN SelectBy(bySource, "event_type", event_type)
       ELSE bySource

\* The filters and the slice, on the copy of the buffer.
RecentEvents(buf, count, source, event_type) ==
    LET bySource == IF Truthy(source) THEN SelectBy(buf, "source", source) ELSE buf
        byType == IF Truthy(event_type)
                  THEN SelectBy(bySource, "event_type", event_type)
                  ELSE bySource
    IN PySliceFrom(byType, -count)

GetRecentEvents(count, source, event_type) ==
    /\ lock = None
    /\ Returns([op |-> "events", count |-> count, source |-> source,
                  event_type |-> event_type,
                  events |-> RecentEvents(events, count, source, event_type)])
    /\ UNCHANGED <<now, lock, cfgVars, aggVars, regVars, callbacks, running,
                   nextId, histVars>>

(***************************************************************************)
(* export_events                                                           *)
(***************************************************************************)
\* datetime.isoformat(): the text of a timestamp
IsoFormat(ts) == <<"iso", ts>>

\* CompositionEvent.to_dict
ToDict(e) ==
    [source |-> e.source, event_type |-> e.event_type, data |-> e.data,
     timestamp |-> IsoFormat(e.timestamp)]

\* export_events: the list of dicts is built under the lock; the file is
\* opened and written only for the formats "json" and "ndjson"; the length
\* of the list is returned in every case.
ExportEvents(format) ==
    LET dicts == [i \in DOMAIN events |-> ToDict(events[i])]
    IN /\ lock = None
       /\ IF format = "json"
          THEN /\ disk' = [format |-> "json", objects |-> dicts]
               /\ wrote' = Len(dicts)
          ELSE IF format = "ndjson"
          THEN /\ disk' = [format |-> "ndjson", objects |-> dicts]
               /\ wrote' = Len(dicts)
          ELSE /\ disk' = disk
               /\ wrote' = 0
       /\ Returns([op |-> "exported", count |-> Len(dicts)])
       /\ UNCHANGED <<now, lock, max_events, window_seconds, producers, monVars,
                      tokVars, aggVars, regVars, callbacks, running, nextId, histVars>>

(***************************************************************************)
(* start / stop and the worker thread                                      *)
(***************************************************************************)
\* start: a second worker started while the first has not yet seen
\* running = False prunes like the first; one worker stands for both.
Start ==
    /\ ~running
    /\ running' = TRUE
    /\ pc' = [pc EXCEPT ![Worker] = "w_loop"]
    /\ caller' = [caller EXCEPT ![Worker] = "worker"]
    /\ ret' = [ret EXCEPT ![Main] = NoRet]
    /\ UNCHANGED <<cur, idx, local>>
    /\ UNCHANGED <<now, lock, cfgVars, aggVars, regVars, callbacks, nextId,
                   histVars>>

\* stop: the join waits two seconds at most, then stop returns
Stop ==
    /\ running' = FALSE
    /\ Returns(NoRet)
    /\ UNCHANGED <<now, lock, cfgVars, aggVars, regVars, callbacks, nextId,
                   histVars>>

\* while self.running: self._clean_window_events() reads the clock
WorkerLoop ==
    /\ pc[Worker] = "w_loop"
    /\ IF running
       THEN /\ pc' = [pc EXCEPT ![Worker] = "clean_lock"]
            /\ local' = [local EXCEPT ![Worker].cutoff = Cutoff]
            /\ UNCHANGED caller
       ELSE /\ pc' = [pc EXCEPT ![Worker] = "off"]
            /\ local' = [local EXCEPT ![Worker] = NoLocal]
            /\ caller' = [caller EXCEPT ![Worker] = None]
    /\ UNCHANGED <<now, lock, cfgVars, aggVars, regVars, callbacks, running,
                   nextId, histVars, cur, idx, ret>>

\* time.sleep(1)
WorkerSleep ==
    /\ pc[Worker] = "w_sleep"
    /\ pc' = [pc EXCEPT ![Worker] = "w_loop"]
    /\ UNCHANGED <<now, lock, cfgVars, aggVars, regVars, callbacks, running,
                   nextId, histVars, cur, idx, local, caller, ret>>

(***************************************************************************)
(* LogMonitor: the files it watches                                        *)
(***************************************************************************)
\* Everything that belongs to the compositor: no LogMonitor method and no
\* change of a file touches it.
compVars == <<now, lock, max_events, window_seconds, producers, disk, wrote, tokVars,
             aggVars, regVars, callbacks, running, nextId, histVars, thrVars>>

\* A program appends one whole line to a file, creating the file if needed;
\* the line has text, or is empty.
AppendLine(f, text) ==
    /\ nextLine <= MaxLines
    /\ fs' = [fs EXCEPT ![f] = [exists |-> TRUE,
                                lines |-> Append(fs[f].lines,
                                                 IF text THEN nextLine ELSE 0)]]
    /\ nextLine' = nextLine + 1
    /\ UNCHANGED <<watchdog, watched_paths, file_positions, entries, stats,
                   mon_running, observer, on_entry_callback, tail, produced, mret>>
    /\ UNCHANGED compVars

\* A file is truncated to nothing.
Truncate(f) ==
    /\ fs[f].exists
    /\ fs[f].lines # <<>>
    /\ fs' = [fs EXCEPT ![f].lines = <<>>]
    /\ UNCHANGED <<watchdog, nextLine, watched_paths, file_positions, entries, stats,
                   mon_running, observer, on_entry_callback, tail, produced, mret>>
    /\ UNCHANGED compVars

\* A file is rotated: its content is replaced by one new line, shorter than
\* what it held.
Rotate(f) ==
    /\ fs[f].exists
    /\ Bytes(fs[f].lines) > LineBytes(nextLine)
    /\ nextLine <= MaxLines
    /\ fs' = [fs EXCEPT ![f].lines = <<nextLine>>]
    /\ nextLine' = nextLine + 1
    /\ UNCHANGED <<watchdog, watched_paths, file_positions, entries, stats,
                   mon_running, observer, on_entry_callback, tail, produced, mret>>
    /\ UNCHANGED compVars

\* A file is deleted.
Unlink(f) ==
    /\ fs[f].exists
    /\ fs' = [fs EXCEPT ![f] = NoFileAt]
    /\ UNCHANGED <<watchdog, nextLine, watched_paths, file_positions, entries, stats,
                   mon_running, observer, on_entry_callback, tail, produced, mret>>
    /\ UNCHANGED compVars

(***************************************************************************)
(* LogMonitor: set_entry_callback, add_watch_path, remove_watch_path       *)
(***************************************************************************)
\* The entry callbacks: one that returns and one that raises.
EntryCallbacks == {"ok", "boom"}

SetEntryCallback(cb) ==
    /\ on_entry_callback' = cb
    /\ mret' = NoMret
    /\ UNCHANGED <<watchdog, fs, nextLine, watched_paths, file_positions, entries,
                   stats, mon_running, observer, tail, produced>>
    /\ UNCHANGED compVars

\* _setup_observer: the old observer is stopped, a new one schedules the
\* directory of every watched path that exists (the directory itself, or the
\* parent of a file) and is started if the monitor is running.
SetupObserver(paths, run) ==
    [exists |-> TRUE,
     started |-> run,
     scheduled |-> {Dir : p \in {q \in paths : Exists(q)}}]

\* add_watch_path that reports success for a path that does not exist.
AddMissingSucceeds(path) == [op |-> "add_watch_path", ok |-> TRUE]

\* add_watch_path of a path that does not exist: return False
AddMissing(path) == [op |-> "add_watch_path", ok |-> FALSE]

AddWatchPath(path) ==
    IF ~Exists(path)
    THEN /\ mret' = AddMissing(path)
         /\ UNCHANGED <<watchdog, fs, nextLine, watched_paths, file_positions,
                        entries, stats, mon_running, observer, on_entry_callback,
                        tail, produced>>
         /\ UNCHANGED compVars
    ELSE /\ watched_paths' = watched_paths \cup {path}
         /\ stats' = [stats EXCEPT !.files_monitored = Cardinality(watched_paths')]
         /\ observer' = IF mon_running /\ watchdog
                        THEN SetupObserver(watched_paths', mon_running)
                        ELSE observer
         /\ mret' = [op |-> "add_watch_path", ok |-> TRUE]
         /\ UNCHANGED <<watchdog, fs, nextLine, file_positions, entries,
                        mon_running, on_entry_callback, tail, produced>>
         /\ UNCHANGED compVars

\* remove_watch_path: the path leaves watched_paths; the observer is not
\* touched.
RemoveWatchPath(path) ==
    /\ IF path \in watched_paths
       THEN /\ watched_paths' = watched_paths \ {path}
            /\ stats' = [stats EXCEPT !.files_monitored = Cardinality(watched_paths')]
            /\ mret' = [op |-> "remove_watch_path", ok |-> TRUE]
       ELSE /\ mret' = [op |-> "remove_watch_path", ok |-> FALSE]
            /\ UNCHANGED <<watched_paths, stats>>
    /\ UNCHANGED <<watchdog, fs, nextLine, file_positions, entries, mon_running,
                   observer, on_entry_callback, tail, produced>>
    /\ UNCHANGED compVars

(***************************************************************************)
(* LogMonitor: _handle_file_change and _add_entry                          *)
(***************************************************************************)
\* Some order of the elements of a set: list(a_set), glob
RECURSIVE Listing(_)
Listing(S) ==
    IF S = {} THEN <<>>
    ELSE LET x == CHOOSE y \in S : TRUE IN <<x>> \o Listing(S \ {x})

\* _handle_file_change returns (or its except clause has swallowed an
\* exception): the watchdog thread waits for the next notification, a poll
\* loop goes on with the next path.
HfcReturn(t) ==
    tail' = [tail EXCEPT ![t] =
                IF t = ObserverThread THEN NoTail
                ELSE [NoTail EXCEPT !.pc = "p_next", !.todo = tail[t].todo]]

\* No except clause: the OSError leaves _handle_file_change and ends the
\* thread that called it.
HfcPropagates(t) ==
    tail' = [tail EXCEPT ![t] = [NoTail EXCEPT !.failed = TRUE]]

\* stat() or open() raises OSError (the file has vanished): `except
\* Exception: pass` ends the call, and the caller goes on as after a return.
HfcFailed(t) ==
    tail' = [tail EXCEPT ![t] =
                IF t = ObserverThread THEN [NoTail EXCEPT !.failed = TRUE]
                ELSE [NoTail EXCEPT !.pc = "p_next", !.todo = tail[t].todo,
                                    !.failed = TRUE]]

\* _handle_file_change(filepath): the filter, the existence test and the
\* read of the last known position
HfcBegin(t) ==
    /\ tail[t].pc = "h_begin"
    /\ LET f == tail[t].filepath
       IN IF ~IsLogFile(f) \/ ~IsFile(f)
          THEN HfcReturn(t)
          ELSE tail' = [tail EXCEPT ![t].pc = "h_stat",
                                    ![t].last_pos = DictGet(file_positions, f, 0)]
    /\ UNCHANGED <<watchdog, fs, nextLine, watched_paths, file_positions, entries,
                   stats, mon_running, observer, on_entry_callback, produced, mret>>
    /\ UNCHANGED compVars

\* current_size = path.stat().st_size; if current_size < last_pos: last_pos = 0
HfcStat(t) ==
    /\ tail[t].pc = "h_stat"
    /\ LET f == tail[t].filepath
           size == Bytes(fs[f].lines)
       IN IF ~fs[f].exists
          THEN HfcFailed(t)
          ELSE tail' = [tail EXCEPT ![t].pc = "h_read",
                                    ![t].current_size = size,
                                    ![t].last_pos = IF size < tail[t].last_pos THEN 0
                                                    ELSE tail[t].last_pos,
                                    ![t].reset = size < tail[t].last_pos]
    /\ UNCHANGED <<watchdog, fs, nextLine, watched_paths, file_positions, entries,
                   stats, mon_running, observer, on_entry_callback, produced, mret>>
    /\ UNCHANGED compVars

\* open; f.seek(last_pos); new_lines = f.readlines();
\* self.file_positions[filepath] = f.tell()
HfcRead(t) ==
    /\ tail[t].pc = "h_read"
    /\ LET f == tail[t].filepath
       IN IF ~fs[f].exists
          THEN /\ HfcFailed(t)
               /\ UNCHANGED file_positions
          ELSE /\ tail' = [tail EXCEPT ![t].pc = "h_lines",
                                       ![t].new_lines = ReadFrom(fs[f].lines, tail[t].last_pos),
                                       ![t].i = 0]
               /\ file_positions' =
                      DictPut(file_positions, f, TellAfter(fs[f].lines, tail[t].last_pos))
    /\ UNCHANGED <<watchdog, fs, nextLine, watched_paths, entries, stats,
                   mon_running, observer, on_entry_callback, produced, mret>>
    /\ UNCHANGED compVars

\* LogEntry(filepath, line_number, content)
LogEntry(f, line_number, content) ==
    [filepath |-> f, line_number |-> line_number, content |-> content]

\* for i, line in enumerate(new_lines): one iteration. An empty line is
\* skipped; else _add_entry appends the entry and counts it, then calls the
\* entry callback; what the callback raises ends _handle_file_change in its
\* except clause.
HfcLine(t) ==
    /\ tail[t].pc = "h_lines"
    /\ LET f == tail[t].filepath
           i == tail[t].i
       IN IF i >= Len(tail[t].new_lines)
          THEN /\ HfcReturn(t)
               /\ UNCHANGED <<entries, stats, produced>>
          ELSE IF tail[t].new_lines[i + 1] = 0
          THEN /\ tail' = [tail EXCEPT ![t].i = i + 1]
               /\ UNCHANGED <<entries, stats, produced>>
          ELSE LET entry == LogEntry(f, tail[t].last_pos + i + 1, tail[t].new_lines[i + 1])
               IN /\ entries' = DequeAppend(entries, entry, MaxEntries)
                  /\ stats' = [stats EXCEPT !.total_entries = @ + 1]
                  /\ produced' = Append(produced, entry)
                  /\ IF on_entry_callback = "boom"
                     THEN HfcReturn(t)
                     ELSE tail' = [tail EXCEPT ![t].i = i + 1]
    /\ UNCHANGED <<watchdog, fs, nextLine, watched_paths, file_positions,
                   mon_running, observer, on_entry_callback, mret>>
    /\ UNCHANGED compVars

\* The watchdog observer tells its handler that a file of a scheduled
\* directory was created or modified: on_modified / on_created call
\* _handle_file_change on the observer's thread.
FsNotify(f) ==
    /\ observer.exists /\ observer.started
    /\ Dir \in observer.scheduled
    /\ fs[f].exists
    /\ tail[ObserverThread].pc = "off"
    /\ tail' = [tail EXCEPT ![ObserverThread] =
                    [NoTail EXCEPT !.pc = "h_begin", !.filepath = f]]
    /\ UNCHANGED <<watchdog, fs, nextLine, watched_paths, file_positions, entries,
                   stats, mon_running, observer, on_entry_callback, produced, mret>>
    /\ UNCHANGED compVars

(***************************************************************************)
(* LogMonitor: scan_existing_logs                                          *)
(***************************************************************************)
\* files[:10]
ScanLimit == 10

\* The entries of the non-empty lines among lines[k..], the line at list
\* index i (from 0) numbered first + i.
RECURSIVE EntriesFor(_, _, _, _)
EntriesFor(f, lines, first, k) ==
    IF k > Len(lines) THEN <<>>
    ELSE (IF lines[k] = 0 THEN <<>> ELSE <<LogEntry(f, first + k - 1, lines[k])>>)
         \o EntriesFor(f, lines, first, k + 1)

\* The entries _add_entry takes before an entry callback that raises ends
\* the batch: all of them, or the first only.
Taken(batch) ==
    IF on_entry_callback = "boom" /\ batch # <<>> THEN <<Head(batch)>> ELSE batch

RECURSIVE AppendAll(_, _, _)
AppendAll(dq, batch, cap) ==
    IF batch = <<>> THEN dq
    ELSE AppendAll(DequeAppend(dq, Head(batch), cap), Tail(batch), cap)

\* The files scan_existing_logs reads for a path: the path itself when it is
\* a file, the log files below it when it is a directory.
ScanFiles(path) ==
    IF IsFile(path) THEN <<path>>
    ELSE IF IsDir(path)
    THEN Listing({f \in Files : IsFile(f) /\ IsLogFile(f)})
    ELSE <<>>

\* lines = f.readlines()[-max_lines:] and the entries made of them
ScanBatch(f, max_lines) ==
    LET lines == PySliceFrom(fs[f].lines, -max_lines)
    IN Taken(EntriesFor(f, lines, Len(lines) - max_lines + 1, 1))

\* The batches of the files scanned, one after the other
RECURSIVE ScanBatches(_, _)
ScanBatches(files, max_lines) ==
    IF files = <<>> THEN <<>>
    ELSE ScanBatch(Head(files), max_lines) \o ScanBatches(Tail(files), max_lines)

\* scan_existing_logs(path, max_lines): every file scanned is read whole,
\* its end is recorded as its position, and its last max_lines lines are
\* made entries.
ScanExistingLogs(path, max_lines) ==
    LET all == ScanFiles(path)
        files == SubSeq(all, 1, Min(ScanLimit, Len(all)))
        read == {files[k] : k \in DOMAIN files}
        batch == ScanBatches(files, max_lines)
    IN /\ Len(produced) + Len(batch) <= MaxProduced
       /\ file_positions' =
              [f \in DOMAIN file_positions \cup read |->
                  IF f \in read THEN Bytes(fs[f].lines) ELSE file_positions[f]]
       /\ entries' = AppendAll(entries, batch, MaxEntries)
       /\ stats' = [stats EXCEPT !.total_entries = @ + Len(batch)]
       /\ produced' = produced \o batch
       /\ mret' = [op |-> "scan_existing_logs", path |-> path]
       /\ UNCHANGED <<watchdog, fs, nextLine, watched_paths, mon_running, observer,
                      on_entry_callback, tail>>
       /\ UNCHANGED compVars

(***************************************************************************)
(* LogMonitor: start, stop and the poll loop                               *)
(***************************************************************************)
\* start: nothing if running; else running is set and the observer is set
\* up or, without watchdog, a new thread is started that runs poll_loop
MonStart ==
    /\ IF mon_running
       THEN UNCHANGED <<mon_running, observer, tail>>
       ELSE /\ mon_running' = TRUE
            /\ IF watchdog
               THEN /\ observer' = SetupObserver(watched_paths, TRUE)
                    /\ UNCHANGED tail
               ELSE /\ \E p \in Pollers :
                          /\ tail[p].pc = "off"
                          /\ tail' = [tail EXCEPT ![p].pc = "p_check"]
                    /\ UNCHANGED observer
    /\ mret' = [op |-> "start"]
    /\ UNCHANGED <<watchdog, fs, nextLine, watched_paths, file_positions, entries,
                   stats, on_entry_callback, produced>>
    /\ UNCHANGED compVars

\* stop: running is cleared; the observer, if any, is stopped and dropped
MonStop ==
    /\ mon_running' = FALSE
    /\ observer' = NoObserver
    /\ mret' = [op |-> "stop"]
    /\ UNCHANGED <<watchdog, fs, nextLine, watched_paths, file_positions, entries,
                   stats, on_entry_callback, tail, produced>>
    /\ UNCHANGED compVars

\* poll_loop: while self.running, with the snapshot list(self.watched_paths)
PollCheck(p) ==
    /\ tail[p].pc = "p_check"
    /\ tail' = [tail EXCEPT ![p] =
                    IF mon_running
                    THEN [NoTail EXCEPT !.pc = "p_next", !.todo = Listing(watched_paths)]
                    ELSE NoTail]
    /\ UNCHANGED <<watchdog, fs, nextLine, watched_paths, file_positions, entries,
                   stats, mon_running, observer, on_entry_callback, produced, mret>>
    /\ UNCHANGED compVars

\* poll_loop: the next path of the snapshot. A file is handled; a directory
\* is replaced by the log files found below it; after the last path the
\* loop sleeps.
PollNext(p) ==
    /\ tail[p].pc = "p_next"
    /\ LET todo == tail[p].todo
       IN IF todo = <<>>
          THEN tail' = [tail EXCEPT ![p].pc = "p_sleep"]
          ELSE IF IsFile(Head(todo))
          THEN tail' = [tail EXCEPT ![p].pc = "h_begin",
                                    ![p].filepath = Head(todo),
                                    ![p].todo = Tail(todo)]
          ELSE IF IsDir(Head(todo))
          THEN tail' = [tail EXCEPT ![p].todo =
                            Listing({f \in Files : IsFile(f) /\ IsLogFile(f)})
                                \o Tail(todo)]
          ELSE tail' = [tail EXCEPT ![p].todo = Tail(todo)]
    /\ UNCHANGED <<watchdog, fs, nextLine, watched_paths, file_positions, entries,
                   stats, mon_running, observer, on_entry_callback, produced, mret>>
    /\ UNCHANGED compVars

\* time.sleep(2) is over
PollSleep(p) ==
    /\ tail[p].pc = "p_sleep"
    /\ tail' = [tail EXCEPT ![p].pc = "p_check"]
    /\ UNCHANGED <<watchdog, fs, nextLine, watched_paths, file_positions, entries,
                   stats, mon_running, observer, on_entry_callback, produced, mret>>
    /\ UNCHANGED compVars

(***************************************************************************)
(* Specifications                                                          *)
(***************************************************************************)
\* The counts handed to get_recent_events and get_snapshot; 10 is the count
\* of the filtering scenario.
Counts == (0..MaxCount) \cup {10}
Filters == {None, ""} \cup Names
TypeFilters == {None, ""} \cup Types

Registry ==
    \/ \E name \in Names : RegisterSource(name)
    \/ \E name \in Names : UnregisterSource(name)

Ingest ==
    \/ \E t \in Threads, s \in Names, ty \in Types : ReceiveEvent(t, s, ty)
    \/ \E t \in Threads : ReceiveLocked(t)
    \/ \E t \in Threads : Notify(t)

\* receive_event for events of one source and one type
IngestOne ==
    \/ \E t \in Threads : ReceiveEvent(t, "A", "log_entry")
    \/ \E t \in Threads : ReceiveLocked(t)
    \/ \E t \in Threads : Notify(t)

Adapter ==
    \/ \E t \in Threads, a \in 1..MaxAdapters : Emit(t, a, "log_entry")
    \/ \E t \in Threads : EmitStore(t)
    \/ \E t \in Threads : EmitForward(t)
    \/ \E t \in Threads : ReceiveLocked(t)
    \/ \E t \in Threads : Notify(t)

Switch ==
    \/ \E a \in 1..MaxAdapters : Disable(a)
    \/ \E a \in 1..MaxAdapters : Enable(a)

Subscribe ==
    \/ \E cb \in Callbacks : AddCallback(cb)
    \/ \E cb \in Callbacks : RemoveCallback(cb)

RateQuery ==
    \/ \E t \in Threads : GetEventsPerSecond(t)
    \/ \E p \in Procs : CleanLocked(p)
    \/ \E t \in Threads : EpsRead(t)

Background ==
    \/ Start
    \/ Stop
    \/ WorkerLoop
    \/ WorkerSleep

Views ==
    \/ \E t \in Threads, n \in Counts : GetSnapshot(t, n)
    \/ \E t \in Threads : SnapshotLocked(t)
    \/ \E t \in Threads : GetStats(t)

\* The two formats the code writes and one it does not know.
Formats == {"json", "ndjson", "csv"}

Export ==
    \E f \in Formats : ExportEvents(f)

Recent ==
    \E n \in Counts, s \in Filters, ty \in TypeFilters : GetRecentEvents(n, s, ty)

\* Every operation of the compositor, by any thread, at any time.
Next ==
    \/ Tick
    \/ Registry
    \/ Ingest
    \/ Adapter
    \/ Switch
    \/ Subscribe
    \/ Clear
    \/ RateQuery
    \/ Background
    \/ Views
    \/ Recent
    \/ Export

Spec == Init /\ [][Next]_vars

(***************************************************************************)
(* The operations that write the buffer and the counters: two producers,   *)
(* registration and clear.                                                 *)
(***************************************************************************)
NextCounts ==
    \/ Registry
    \/ Ingest
    \/ Clear

SpecCounts == Init /\ [][NextCounts]_vars

(***************************************************************************)
(* The operations that write the buffer and total_events: two producers    *)
(* and clear.                                                              *)
(***************************************************************************)
NextBuffer ==
    \/ Ingest
    \/ Clear

SpecBuffer == Init /\ [][NextBuffer]_vars

(***************************************************************************)
(* The fan-out: a producer and a changing list of subscribers.             *)
(***************************************************************************)
NextFanout ==
    \/ IngestOne
    \/ Subscribe

SpecFanout == InitWith({"t1"}) /\ [][NextFanout]_vars

(***************************************************************************)
(* The adapters, with a subscriber: registration, emit by one producer,    *)
(* disable and enable.                                                     *)
(***************************************************************************)
NextAdapter ==
    \/ Registry
    \/ Adapter
    \/ Switch

SpecAdapter == InitSubscribed({"t1"}, "ok") /\ [][NextAdapter]_vars

(***************************************************************************)
(* The rate window: one producer, the clock, rate queries by the other     *)
(* thread, the background worker and clear.                                *)
(***************************************************************************)
NextRate ==
    \/ Tick
    \/ IngestOne
    \/ RateQuery
    \/ Background
    \/ Clear

SpecRate == InitWith({"t1"}) /\ [][NextRate]_vars

(***************************************************************************)
(* The views that hold the lock: get_stats and get_snapshot by one thread  *)
(* beside a producer that emits on registered adapters.                    *)
(***************************************************************************)
NextViews ==
    \/ Tick
    \/ \E name \in Names : RegisterSource(name)
    \/ Adapter
    \/ RateQuery
    \/ Views

SpecViews == InitWith({"t1"}) /\ [][NextViews]_vars

(***************************************************************************)
(* get_recent_events as a function of the buffer: the compositor has       *)
(* received, at time 0 and with room for all of them, any sequence of at   *)
(* most MaxBuffer events; then get_recent_events is called.                *)
(***************************************************************************)
EventsOf(kinds) ==
    [i \in DOMAIN kinds |->
        [id |-> i, source |-> kinds[i][1], event_type |-> kinds[i][2],
         data |-> "payload", timestamp |-> 0]]

Buffers == UNION {{EventsOf(k) : k \in [1..n -> Names \X Types]} : n \in 0..MaxBuffer}

\* The counter dict that receive_event builds for the events of buf.
CountBy(buf, field) ==
    [k \in {buf[i][field] : i \in DOMAIN buf} |->
        Cardinality({i \in DOMAIN buf : buf[i][field] = k})]

InitRecent ==
    \E buf \in Buffers :
        /\ max_events = MaxBuffer
        /\ window_seconds = Window
        /\ events = buf
        /\ window_events = buf
        /\ accepted = buf
        /\ total_events = Len(buf)
        /\ source_counts = CountBy(buf, "source")
        /\ type_counts = CountBy(buf, "event_type")
        /\ nextId = Len(buf) + 1
        /\ sources = EmptyDict
        /\ adapters = <<>>
        /\ callbacks = <<>>
        /\ lock = None
        /\ running = FALSE
        /\ now = 0
        /\ producers = {"t1"}
        /\ InitExternal
        /\ InitMonitor(TRUE)
        /\ delivered = [c \in Subscribers |-> <<>>]
        /\ InitThreads

\* One call on each buffer: the buffer does not change, a second call
\* returns what the first did.
NextRecent == ret[Main] = NoRet /\ Recent

SpecRecent == InitRecent /\ [][NextRecent]_vars

(***************************************************************************)
(* clear beside everything it must leave alone: registered adapters that   *)
(* have emitted, a subscriber, and the background worker.                  *)
(***************************************************************************)
NextClear ==
    \/ \E name \in Names : RegisterSource(name)
    \/ Adapter
    \/ Switch
    \/ Background
    \/ CleanLocked(Worker)
    \/ Clear

SpecClear == InitSubscribed({"t1"}, "ok") /\ [][NextClear]_vars

(***************************************************************************)
(* export_events beside two producers and clear.                           *)
(***************************************************************************)
NextExport ==
    \/ Ingest
    \/ Clear
    \/ Export

SpecExport == Init /\ [][NextExport]_vars

(***************************************************************************)
(* Two producers, each emitting on the adapter it registered, beside a     *)
(* subscriber: the adapter of an event tells the thread that emitted it.   *)
(***************************************************************************)
\* The adapter a thread emits on: the first registered for t1, the second
\* for t2.
Own(t) == IF t = "t1" THEN 1 ELSE 2

NextOrder ==
    \/ \E name \in Names : RegisterSource(name)
    \/ \E t \in Threads : Emit(t, Own(t), "log_entry")
    \/ \E t \in Threads : EmitStore(t)
    \/ \E t \in Threads : EmitForward(t)
    \/ \E t \in Threads : ReceiveLocked(t)
    \/ \E t \in Threads : Notify(t)

SpecOrder == InitSubscribed(Threads, "ok") /\ [][NextOrder]_vars

(***************************************************************************)
(* Subscribers that write to the event they are given: two producers and   *)
(* a changing list of subscribers, one of which edits the event's data.    *)
(***************************************************************************)
NextShared ==
    \/ IngestOne
    \/ \E cb \in {"ok"} \cup Mutating : AddCallback(cb)
    \/ \E cb \in {"ok"} \cup Mutating : RemoveCallback(cb)

SpecShared == Init /\ [][NextShared]_vars

(***************************************************************************)
(* The tailer in notification-driven mode, after add_watch_path of the     *)
(* directory, set_entry_callback and start: files grow, are truncated and  *)
(* rotated, and the observer's thread handles the notifications.           *)
(***************************************************************************)
\* The compositor as constructed, with nothing going on in it.
InitAside ==
    /\ InitCompositor(Capacity, Window)
    /\ InitThreads
    /\ now = 0
    /\ adapters = <<>>
    /\ producers = Threads
    /\ nextId = 1
    /\ accepted = <<>>
    /\ delivered = [c \in Subscribers |-> <<>>]
    /\ InitExternal

\* The monitor after add_watch_path(Dir), set_entry_callback(cb) when cb is
\* a callback, and start().
InitTailing(wd, cb) ==
    /\ InitAside
    /\ watchdog = wd
    /\ fs = [f \in Files |-> [exists |-> TRUE, lines |-> <<>>]]
    /\ nextLine = 1
    /\ watched_paths = {Dir}
    /\ file_positions = EmptyDict
    /\ entries = <<>>
    /\ stats = [total_entries |-> 0, files_monitored |-> 1]
    /\ mon_running = TRUE
    /\ observer = IF wd THEN SetupObserver({Dir}, TRUE) ELSE NoObserver
    /\ on_entry_callback = cb
    /\ tail = [t \in TailThreads |->
                  IF ~wd /\ t = "p1" THEN [NoTail EXCEPT !.pc = "p_check"] ELSE NoTail]
    /\ produced = <<>>
    /\ mret = [op |-> "start"]

Writes ==
    \/ \E f \in Files, text \in BOOLEAN : AppendLine(f, text)
    \/ \E f \in Files : Truncate(f)
    \/ \E f \in Files : Rotate(f)

Handle ==
    \/ \E t \in TailThreads : HfcBegin(t)
    \/ \E t \in TailThreads : HfcStat(t)
    \/ \E t \in TailThreads : HfcRead(t)
    \/ \E t \in TailThreads : HfcLine(t)

NextTruncate ==
    \/ Writes
    \/ \E f \in Files : FsNotify(f)
    \/ Handle

SpecTruncate ==
    /\ \E cb \in {None} \cup EntryCallbacks : InitTailing(TRUE, cb)
    /\ [][NextTruncate]_vars

(***************************************************************************)
(* Files that only grow, by whole lines, observed by notifications and by  *)
(* scan_existing_logs; no entry callback is set.                           *)
(***************************************************************************)
\* max_lines handed to scan_existing_logs; 100 is its default
ScanArgs == {1, 100}

Polling ==
    \/ \E p \in Pollers : PollCheck(p)
    \/ \E p \in Pollers : PollNext(p)
    \/ \E p \in Pollers : PollSleep(p)

NextGrow ==
    \/ \E f \in Files, text \in BOOLEAN : AppendLine(f, text)
    \/ \E f \in Files : FsNotify(f)
    \/ Handle
    \/ \E path \in {Dir, "app.log"}, n \in ScanArgs : ScanExistingLogs(path, n)

SpecGrow == InitTailing(TRUE, None) /\ [][NextGrow]_vars

(***************************************************************************)
(* Watching and unwatching paths, some of which do not exist, while the    *)
(* monitor is started and stopped, in either mode.                         *)
(***************************************************************************)
Watch ==
    \/ \E path \in Paths : AddWatchPath(path)
    \/ \E path \in Paths : RemoveWatchPath(path)

NextWatch ==
    \/ Watch
    \/ MonStart
    \/ MonStop
    \/ Polling
    \/ Handle

SpecWatch ==
    /\ \E wd \in BOOLEAN : InitAside /\ InitMonitor(wd)
    /\ [][NextWatch]_vars

(***************************************************************************)
(* Poll-driven mode: paths are watched and unwatched, the monitor is       *)
(* started and stopped, and every poll loop runs its cycles.               *)
(***************************************************************************)
InitPoll == InitAside /\ InitMonitor(FALSE)

SpecPoll == InitPoll /\ [][NextWatch]_vars

(***************************************************************************)
(* Unwatching: the monitor runs, in either mode, with the directory        *)
(* watched; paths are unwatched, and files are written only while no       *)
(* watched path covers them.                                               *)
(***************************************************************************)
\* A file is under a watched path: the path is the file or its directory.
Covered(f) == f \in watched_paths \/ Dir \in watched_paths

UnwatchedWrite ==
    \E f \in Files, text \in BOOLEAN : ~Covered(f) /\ AppendLine(f, text)

NextUnwatch ==
    \/ \E path \in Paths : RemoveWatchPath(path)
    \/ UnwatchedWrite
    \/ \E f \in Files : FsNotify(f)
    \/ Handle
    \/ Polling

SpecUnwatch ==
    /\ \E wd \in BOOLEAN : InitTailing(wd, None)
    /\ [][NextUnwatch]_vars

(***************************************************************************)
(* The file-type filter: lines are appended to a log file and to a file    *)
(* that is none; notifications are handled and any path is scanned.        *)
(***************************************************************************)
NextFilter ==
    \/ \E f \in Files : AppendLine(f, TRUE)
    \/ \E f \in Files : FsNotify(f)
    \/ Handle
    \/ \E path \in Paths : ScanExistingLogs(path, 100)

SpecFilter == InitTailing(TRUE, None) /\ [][NextFilter]_vars

\* Log lines are made of at most MaxWords of these pieces, which put keywords
\* of several groups, in both cases and split over two pieces, into one line.
MaxWords == 3
Words == { <<"E", "R", "R", "O", "R">>, <<"W", "a", "r", "n">>, <<"i", "n", "f", "o">>,
           <<"t", "r", "a", "c", "e">>, <<"F", "a">>, <<"i", "l">>, <<" ">>, <<"o", "k">> }

RECURSIVE Concat(_)
Concat(ws) == IF ws = <<>> THEN <<>> ELSE Head(ws) \o Concat(Tail(ws))

Contents == {Concat(ws) : ws \in UNION {[1..n -> Words] : n \in 0..MaxWords}}

\* One call of _detect_level on a line; the function keeps no state, so one
\* call in a behaviour shows all there is.
DetectLevelCall ==
    /\ mret.op # "_detect_level"
    /\ \E content \in Contents :
           mret' = [op |-> "_detect_level", content |-> content,
                    level |-> DetectLevel(content)]
    /\ UNCHANGED <<watchdog, fs, nextLine, watched_paths, file_positions, entries,
                   stats, mon_running, observer, on_entry_callback, tail, produced>>
    /\ UNCHANGED compVars

SpecLevel == InitTailing(TRUE, None) /\ [][DetectLevelCall]_vars

(***************************************************************************)
(* TokenManager                                                            *)
(***************************************************************************)
MaxTokens == 2
TokenNames == {"ci", "dev"}
\* expiry_days; None takes the branch of 0
ExpiryDays == {0, 1}
\* "pat_invalid", a token no call generated
Invalid == 0

\* _hash_token: a salted hash, different for every token
HashToken(token) == <<"bcrypt", token>>

\* bcrypt.checkpw
CheckPw(token, token_hash) == token_hash = HashToken(token)

otherVars == <<now, lock, max_events, window_seconds, producers, disk, wrote, monVars,
               aggVars, regVars, callbacks, running, nextId, histVars>>

\* _save_tokens, and whether it returned (TRUE) or raised RuntimeError
SaveTokens(saved) == token_file' = IF writable THEN saved ELSE token_file

\* generate_token; time is counted in days
GenerateToken(name, expiry_days) ==
    LET token == Len(issued) + 1
        expiry == IF expiry_days # 0 THEN <<now + expiry_days>> ELSE <<>>
        data == [name |-> name, expiry |-> expiry, last_used |-> <<>>]
    IN /\ IF \E h \in DOMAIN tokens : tokens[h].name = name
          THEN /\ Returns([op |-> "generate_token", raised |-> "ValueError"])
               /\ UNCHANGED <<tokens, token_file, issued>>
          ELSE /\ Len(issued) < MaxTokens
               /\ tokens' = DictPut(tokens, HashToken(token), data)
               /\ SaveTokens(tokens')
               /\ issued' = Append(issued, [name |-> name, expiry |-> expiry,
                                            returned |-> writable, revoked |-> FALSE])
               /\ IF writable
                  THEN Returns([op |-> "generate_token", raised |-> None,
                                value |-> token])
                  ELSE Returns([op |-> "generate_token", raised |-> "RuntimeError"])
       /\ UNCHANGED writable
       /\ UNCHANGED otherVars

\* validate_token: _save_tokens is called inside the try block of the loop,
\* so its RuntimeError is caught there, the loop goes on to the other
\* hashes, none of which matches, and the call returns False
ValidateToken(token, update_last_used) ==
    /\ IF \E h \in DOMAIN tokens : CheckPw(token, h)
       THEN LET h == CHOOSE x \in DOMAIN tokens : CheckPw(token, x)
            IN IF tokens[h].expiry # <<>> /\ now > tokens[h].expiry[1]
               THEN /\ Returns([op |-> "validate_token", token |-> token,
                                 value |-> FALSE])
                    /\ UNCHANGED <<tokens, token_file>>
               ELSE IF update_last_used
               THEN /\ tokens' = [tokens EXCEPT ![h].last_used = <<now>>]
                    /\ SaveTokens(tokens')
                    /\ Returns([op |-> "validate_token", token |-> token,
                                 value |-> writable])
               ELSE /\ Returns([op |-> "validate_token", token |-> token,
                                 value |-> TRUE])
                    /\ UNCHANGED <<tokens, token_file>>
       ELSE /\ Returns([op |-> "validate_token", token |-> token, value |-> FALSE])
            /\ UNCHANGED <<tokens, token_file>>
    /\ UNCHANGED <<writable, issued>>
    /\ UNCHANGED otherVars

\* revoke_token
RevokeToken(name) ==
    /\ IF \E h \in DOMAIN tokens : tokens[h].name = name
       THEN LET h == CHOOSE x \in DOMAIN tokens : tokens[x].name = name
            IN /\ tokens' = DictDel(tokens, h)
               /\ SaveTokens(tokens')
               /\ issued' = [k \in DOMAIN issued |->
                                IF issued[k].name = name
                                THEN [issued[k] EXCEPT !.revoked = TRUE]
                                ELSE issued[k]]
               /\ IF writable
                  THEN Returns([op |-> "revoke_token", raised |-> None,
                                value |-> TRUE])
                  ELSE Returns([op |-> "revoke_token", raised |-> "RuntimeError"])
       ELSE /\ Returns([op |-> "revoke_token", raised |-> None, value |-> FALSE])
            /\ UNCHANGED <<tokens, token_file, issued>>
    /\ UNCHANGED writable
    /\ UNCHANGED otherVars

\* The storage file becomes read-only, or writable again.
Chmod ==
    /\ writable' = ~ writable
    /\ UNCHANGED <<tokens, token_file, issued>>
    /\ UNCHANGED <<otherVars, thrVars>>

\* A caller holds the tokens that generate_token returned to it.
Held == {Invalid} \cup {k \in DOMAIN issued : issued[k].returned}

NextTokens ==
    \/ Tick
    \/ Chmod
    \/ \E name \in TokenNames, expiry_days \in ExpiryDays : GenerateToken(name, expiry_days)
    \/ \E token \in Held, update_last_used \in BOOLEAN :
           ValidateToken(token, update_last_used)
    \/ \E name \in TokenNames : RevokeToken(name)

SpecTokens == Init /\ [][NextTokens]_vars

(***************************************************************************)
(* Two producers and a subscriber, beside a reader of the buffer.          *)
(***************************************************************************)
NextCallbacks ==
    \/ IngestOne
    \/ \E n \in {1, MaxCount} : GetRecentEvents(n, None, None)

SpecCallbacks == InitSubscribed(Threads, "ok") /\ [][NextCallbacks]_vars

(***************************************************************************)
(* Two producers, the clock and the background worker that prunes the      *)
(* rate window.                                                            *)
(***************************************************************************)
NextStamp ==
    \/ Tick
    \/ IngestOne
    \/ Background
    \/ CleanLocked(Worker)

SpecStamp == Init /\ [][NextStamp]_vars

(***************************************************************************)
(* Subscribers removed during the fan-out: a producer, and a main thread   *)
(* that removes subscribers at any time and adds one, not yet in the list, *)
(* only while no event is between its insertion and the end of its         *)
(* fan-out.  A subscriber in the list at the end of a fan-out was then in  *)
(* the list when the event was inserted and has not been removed since.    *)
(***************************************************************************)
Delivering == {t \in Threads : pc[t] = "rx_notify"}

NextRemoval ==
    \/ IngestOne
    \/ \E cb \in Callbacks :
           Delivering = {} /\ ~ InList(callbacks, cb) /\ AddCallback(cb)
    \/ \E cb \in Callbacks : RemoveCallback(cb)

SpecRemoval == InitWith({"t1"}) /\ [][NextRemoval]_vars

(***************************************************************************)
(* Files that only grow, by whole lines, observed by notifications: the    *)
(* position of a line in its file never changes.                           *)
(***************************************************************************)
NextAppend ==
    \/ \E f \in Files, text \in BOOLEAN : AppendLine(f, text)
    \/ \E f \in Files : FsNotify(f)
    \/ Handle

SpecAppend == InitTailing(TRUE, None) /\ [][NextAppend]_vars

(***************************************************************************)
(* scan_existing_logs with any max_lines, 0 included, on files that grow.  *)
(***************************************************************************)
\* max_lines from 0 on; 100 is the default
ScanSizes == {0, 1, 100}

NextScan ==
    \/ \E f \in Files, text \in BOOLEAN : AppendLine(f, text)
    \/ \E path \in {Dir, "app.log"}, n \in ScanSizes : ScanExistingLogs(path, n)

SpecScan == InitTailing(TRUE, None) /\ [][NextScan]_vars

(***************************************************************************)
(* Poll-driven mode with the directory watched: files grow and are         *)
(* deleted, also between the tests and the reads of a cycle.               *)
(***************************************************************************)
NextVanish ==
    \/ \E f \in Files, text \in BOOLEAN : AppendLine(f, text)
    \/ \E f \in Files : Unlink(f)
    \/ Polling
    \/ Handle

SpecVanish == InitTailing(FALSE, None) /\ [][NextVanish]_vars

(***************************************************************************)
(* Two producers that emit on the same adapter.                            *)
(***************************************************************************)
NextSameAdapter ==
    \/ RegisterSource("A")
    \/ \E t \in Threads : Emit(t, 1, "log_entry")
    \/ \E t \in Threads : EmitStore(t)
    \/ \E t \in Threads : EmitForward(t)
    \/ \E t \in Threads : ReceiveLocked(t)
    \/ \E t \in Threads : Notify(t)

SpecSameAdapter == Init /\ [][NextSameAdapter]_vars

(***************************************************************************)
(* The claims                                                              *)
(***************************************************************************)
\* The last n elements of seq (all of them when it has fewer).
Newest(seq, n) == SubSeq(seq, Len(seq) - Min(n, Len(seq)) + 1, Len(seq))

\* C1: in every reachable state, after any sequence of register_source,
\* unregister_source, receive_event and clear, the values of source_counts
\* sum to total_events, and so do the values of type_counts.
C1_CountersAgree ==
    /\ DictSum(source_counts) = total_events
    /\ DictSum(type_counts) = total_events

\* C2: the buffer holds exactly the max_events most recently accepted events
\* (since the last clear) in acceptance order; its length never exceeds
\* max_events and always equals min(max_events, total_events).
C2_BufferHoldsNewest ==
    /\ events = Newest(accepted, max_events)
    /\ Len(events) <= max_events
    /\ Len(events) = Min(max_events, total_events)

\* C2's case: more events were accepted than the buffer holds, from both
\* sources, and the oldest is gone.
C2_Evicted ==
    /\ total_events > max_events
    /\ Len(events) = max_events
    /\ accepted[1].id # events[1].id
    /\ \E i, j \in DOMAIN accepted : accepted[i].source # accepted[j].source

\* A thread waits for the lock while it holds it itself: the lock is not
\* reentrant, so it waits forever, and so does every later caller.
WaitsForOwnLock(t) == pc[t] \in {"clean_lock", "eps_read"} /\ lock = t

\* C3: get_stats() called by a thread that holds no lock always returns,
\* never blocks forever, and reports as total_events the number of events
\* accepted since the last clear.
C3_GetStatsReturns ==
    \A t \in Threads :
        /\ caller[t] = "stats_eps" => ~WaitsForOwnLock(t)
        /\ ret[t].op = "stats" => ret[t].stats.total_events = Len(accepted)

\* C4: get_snapshot(n) returns, and what it returns is of one point in time:
\* its total_events is the sum of its per-source counts and of its per-type
\* counts.
C4_SnapshotReturns ==
    \A t \in Threads :
        /\ caller[t] = "snapshot_eps" => ~WaitsForOwnLock(t)
        /\ ret[t].op = "snapshot" =>
               /\ ret[t].snap.total_events = DictSum(ret[t].snap.sources)
               /\ ret[t].snap.total_events = DictSum(ret[t].snap.event_types)

\* C5: when a subscriber raises during the fan-out of an event, the loop
\* goes on with the next subscriber, nothing of the buffer and the counters
\* changes (the event stays recorded), and receive_event never ends by
\* raising to the producer.
C5_RaiseIsSwallowed ==
    [][\A t \in Threads :
          /\ ret'[t].op # "raised"
          /\ (Notify(t) /\ idx[t] <= Len(callbacks)) =>
                /\ pc'[t] = "rx_notify"
                /\ idx'[t] = idx[t] + 1
                /\ cur'[t] = cur[t]
                /\ UNCHANGED <<aggVars, accepted>>
                /\ \E i \in DOMAIN accepted : accepted[i].id = cur[t].id]_vars

Delivered(cb, id) == \E i \in DOMAIN delivered[cb] : delivered[cb][i] = id

\* C5's case: the first subscriber raised for an event, the second was
\* still called with it, the call returned and the event is in the buffer.
C5_NextStillCalled ==
    /\ callbacks = <<"boom", "ok">>
    /\ pc["t1"] = "idle"
    /\ \E i \in DOMAIN events :
          /\ Delivered("boom", events[i].id)
          /\ Delivered("ok", events[i].id)

\* C6: emit on a disabled adapter changes nothing in the aggregator, calls
\* no subscriber and leaves event_count as it is; disable and enable change
\* the enabled flag alone, so event_count goes on from its value; emit on
\* an enabled adapter is accepted.
C6_DisabledEmitIsSilent ==
    [][/\ \A t \in Threads, a \in DOMAIN adapters :
             Emit(t, a, "log_entry") =>
                IF adapters[a].enabled
                THEN pc'[t] = "emit_store" /\ local'[t].count = adapters[a].event_count
                ELSE /\ UNCHANGED <<aggVars, adapters, histVars, callbacks, sources>>
                     /\ pc'[t] = "idle"
       /\ \A a \in DOMAIN adapters :
             (Disable(a) \/ Enable(a)) =>
                /\ adapters'[a].event_count = adapters[a].event_count
                /\ adapters'[a].name = adapters[a].name
                /\ \A b \in DOMAIN adapters \ {a} : adapters'[b] = adapters[b]
                /\ UNCHANGED <<aggVars, histVars>>]_vars

\* C6's case: an adapter that has emitted is disabled, and an emit on it
\* was dropped: the aggregator holds what it held before.
C6_DroppedWhileDisabled ==
    \E a \in DOMAIN adapters :
        /\ ~adapters[a].enabled
        /\ adapters[a].event_count >= 1
        /\ ret["t1"].op = "dropped"
        /\ total_events = adapters[a].event_count
        /\ Len(delivered["ok"]) = total_events

\* C7: register_source(name) for a name that is registered returns the
\* adapter the first call returned, leaves its enabled flag and event_count
\* as they are and source_counts unchanged, and constructs no adapter.
C7_RegisterIsIdempotent ==
    [][\A name \in Names :
          (RegisterSource(name) /\ name \in DOMAIN sources) =>
             /\ ret'[Main] = [op |-> "adapter", adapter |-> sources[name]]
             /\ UNCHANGED <<sources, adapters, source_counts>>]_vars

\* C7's case: the name was registered, its adapter emitted and was disabled,
\* and a later register_source returned that same adapter.
C7_RegisteredAgain ==
    \E name \in DOMAIN sources :
        /\ ret[Main] = [op |-> "adapter", adapter |-> sources[name]]
        /\ ~adapters[sources[name]].enabled
        /\ adapters[sources[name]].event_count >= 1
        /\ DictGet(source_counts, name, 0) >= 1

\* The events accepted since the last clear whose timestamp is not older
\* than x.
NotOlderThan(x) == {i \in DOMAIN accepted : accepted[i].timestamp >= x}

\* The rate r is n events over the window.
IsRateOf(r, n) == r.num * window_seconds = n * r.den

\* C8: with a single producer, get_events_per_second() returns the number
\* of events accepted since the last clear whose timestamp is not older than
\* now - window_seconds, over window_seconds, for a now between its call and
\* its return, whether or not the worker runs; so it returns 0 once every
\* event is older than that.
C8_RateCountsRecent ==
    [][\A t \in Threads :
          (EpsRead(t) /\ caller[t] = "eps" /\ Cardinality(producers) = 1) =>
             \E x \in local[t].cutoff .. (now - window_seconds) :
                 IsRateOf(ret'[t].rate, Cardinality(NotOlderThan(x)))]_vars

\* An event passes the filters: a filter that is None or "" is not given.
Matches(e, source, event_type) ==
    /\ Truthy(source) => e.source = source
    /\ Truthy(event_type) => e.event_type = event_type

MatchingIds(buf, source, event_type) ==
    {buf[i].id : i \in {j \in DOMAIN buf : Matches(buf[j], source, event_type)}}

Position(buf, e) == CHOOSE i \in DOMAIN buf : buf[i].id = e.id

\* C9: get_recent_events(count, source, event_type) returns only buffered
\* events that pass the filters given (None and "" give no filter), in
\* buffer order, and all of them when at most count of them pass.
C9_FilteredInOrder ==
    [][\A n \in Counts, s \in Filters, ty \in TypeFilters :
          GetRecentEvents(n, s, ty) =>
             LET r == ret'[Main].events
                 ids == MatchingIds(events, s, ty)
             IN /\ \A i \in DOMAIN r :
                      /\ Matches(r[i], s, ty)
                      /\ \E j \in DOMAIN events : events[j] = r[i]
                /\ \A i, k \in DOMAIN r :
                      i < k => Position(events, r[i]) < Position(events, r[k])
                /\ Cardinality(ids) <= n =>
                      /\ {r[i].id : i \in DOMAIN r} = ids
                      /\ Len(r) = Cardinality(ids)]_vars

\* C9's case: three events from "A" and two from "B" are buffered, and
\* get_recent_events(10, source="A") returned the three from "A".
C9_ThreeOfFive ==
    /\ Len(events) = 5
    /\ Cardinality({i \in DOMAIN events : events[i].source = "A"}) = 3
    /\ ret[Main].op = "events"
    /\ ret[Main].count = 10
    /\ ret[Main].source = "A"
    /\ ret[Main].event_type = None
    /\ Len(ret[Main].events) = 3

RECURSIVE Matching(_, _, _)
Matching(buf, source, event_type) ==
    IF buf = <<>> THEN <<>>
    ELSE LET rest == Matching(Tail(buf), source, event_type)
         IN IF Matches(Head(buf), source, event_type) THEN <<Head(buf)>> \o rest
            ELSE rest

\* C10: for every count >= 0, count = 0 included, get_recent_events returns
\* at most count events: the count most recent buffered events that pass
\* the filters.
C10_AtMostCount ==
    [][\A n \in Counts, s \in Filters, ty \in TypeFilters :
          GetRecentEvents(n, s, ty) =>
             /\ Len(ret'[Main].events) <= n
             /\ ret'[Main].events = Newest(Matching(events, s, ty), n)]_vars

\* C11: a clear() step leaves events and window_events empty, source_counts
\* and type_counts without a positive entry and total_events = 0, and leaves
\* the table of sources, every adapter (enabled, event_count), the list of
\* subscribers and the running flag as they were.
C11_ClearFrame ==
    [][Clear =>
        /\ events' = <<>>
        /\ window_events' = <<>>
        /\ \A k \in DOMAIN source_counts' : source_counts'[k] <= 0
        /\ \A k \in DOMAIN type_counts' : type_counts'[k] <= 0
        /\ total_events' = 0
        /\ sources' = sources
        /\ adapters' = adapters
        /\ callbacks' = callbacks
        /\ running' = running]_vars

\* clear has run (an emit has completed, yet nothing is counted) with a
\* registered adapter that has emitted, a subscriber and the worker running.
C11_ClearedKeepsRegistry ==
    /\ total_events = 0
    /\ events = <<>>
    /\ pc["t1"] = "idle"
    /\ \E n \in DOMAIN sources : adapters[sources[n]].event_count > 0
    /\ callbacks # <<>>
    /\ running

\* C12: every export_events call that returns normally, whatever its format
\* argument, returns the number of event objects it wrote to the file, and
\* that number is the number of events in the buffer at the call.
C12_ExportCountsWritten ==
    [][\A f \in Formats :
          ExportEvents(f) =>
              /\ ret'[Main].count = wrote'
              /\ ret'[Main].count = Len(events)]_vars

\* The source of the accepted event with identity id.
SourceOfId(id) ==
    LET i == CHOOSE k \in DOMAIN accepted : accepted[k].id = id
    IN accepted[i].source

\* C13: each thread emits on its own adapter, so two events of one source
\* were emitted by one thread, the one with the smaller identity first.
\* Of two such events the earlier stands before the later in the events
\* buffer, and every subscriber is called with the earlier before the later.
C13_FifoPerSource ==
    /\ \A i, j \in DOMAIN events :
           (i < j /\ events[i].source = events[j].source)
               => events[i].id < events[j].id
    /\ \A cb \in Callbacks :
           \A i, j \in DOMAIN delivered[cb] :
               (i < j /\ SourceOfId(delivered[cb][i]) = SourceOfId(delivered[cb][j]))
                   => delivered[cb][i] < delivered[cb][j]

\* Two events of one thread are in the buffer and were both delivered,
\* and the other thread constructed an event between them.
C13_TwoOfOneSource ==
    /\ Len(events) = 2
    /\ events[1].source = events[2].source
    /\ events[2].id = events[1].id + 2
    /\ Len(delivered["ok"]) = 3

\* C14: a subscriber gets a copy. Whatever subscribers write to the events
\* they are called with, every event in the events and window_events
\* buffers (what get_recent_events and export_events read) is as it was
\* accepted, and so is the event a thread is handing to its next subscriber.
C14_SubscribersGetCopies ==
    LET AsAccepted(e) == \E k \in DOMAIN accepted : accepted[k] = e
    IN /\ \A i \in DOMAIN events : AsAccepted(events[i])
       /\ \A i \in DOMAIN window_events : AsAccepted(window_events[i])
       /\ \A t \in Threads : pc[t] = "rx_notify" => AsAccepted(cur[t])

\* A thread leaves _handle_file_change after its loop over new_lines.
EndsCycle(t) == tail[t].pc = "h_lines" /\ tail'[t].pc # "h_lines"

\* C15: in a cycle that finds the file smaller than the recorded offset the
\* tailer reads from offset 0; what it reads is the whole current content;
\* the offset it records lies between 0 and the current size; when the cycle
\* ends, every non-empty line it read has an entry; no recorded offset is
\* ever negative.
C15_TruncationRereads ==
    [][\A t \in TailThreads :
          LET f == tail[t].filepath
          IN /\ (HfcStat(t) /\ fs[f].exists /\ Bytes(fs[f].lines) < tail[t].last_pos)
                    => tail'[t].last_pos = 0
             /\ (HfcRead(t) /\ fs[f].exists /\ tail[t].reset)
                    => /\ tail'[t].new_lines = fs[f].lines
                       /\ file_positions'[f] >= 0
                       /\ file_positions'[f] <= Bytes(fs[f].lines)
             /\ (EndsCycle(t) /\ tail[t].reset)
                    => \A k \in DOMAIN tail[t].new_lines :
                           tail[t].new_lines[k] # 0 =>
                               \E j \in DOMAIN produced' :
                                   /\ produced'[j].filepath = f
                                   /\ produced'[j].content = tail[t].new_lines[k]
             /\ \A g \in DOMAIN file_positions' : file_positions'[g] >= 0]_vars

\* The byte at which line k of a file starts.
StartOf(lines, k) == Bytes(SubSeq(lines, 1, k - 1))

\* C16: files only grow by whole lines. No line is made an entry twice, and
\* a non-empty line that the recorded offset of its file has passed has an
\* entry as soon as no thread is still inside _handle_file_change for it.
C16_EachLineOnce ==
    /\ \A i, j \in DOMAIN produced :
           (produced[i].filepath = produced[j].filepath
               /\ produced[i].content = produced[j].content) => i = j
    /\ \A f \in DOMAIN file_positions :
           (\A t \in TailThreads : tail[t].filepath # f) =>
               \A k \in DOMAIN fs[f].lines :
                   (fs[f].lines[k] # 0 /\ StartOf(fs[f].lines, k) < file_positions[f])
                       => \E j \in DOMAIN produced :
                              /\ produced[j].filepath = f
                              /\ produced[j].content = fs[f].lines[k]

\* C17: add_watch_path of a path that does not exist ends with an outcome
\* that is not the success result and changes neither watched_paths nor
\* the files_monitored statistic nor the observation under way (running
\* flag, observer, poll loops); add_watch_path of a path that exists puts
\* it into watched_paths and reports success.
C17_AddWatchPath ==
    [][\A path \in Paths :
          AddWatchPath(path) =>
              IF ~Exists(path)
              THEN /\ mret' # [op |-> "add_watch_path", ok |-> TRUE]
                   /\ mret'.op = "add_watch_path" /\ ~mret'.ok
                   /\ watched_paths' = watched_paths
                   /\ stats'.files_monitored = stats.files_monitored
                   /\ mon_running' = mon_running
                   /\ observer' = observer
                   /\ tail' = tail
              ELSE /\ path \in watched_paths'
                   /\ stats'.files_monitored = Cardinality(watched_paths')
                   /\ mret' = [op |-> "add_watch_path", ok |-> TRUE]]_vars

\* A path that does not exist was refused while the monitor was running
\* with a watched path.
C17_MissingRefused ==
    /\ mret = [op |-> "add_watch_path", ok |-> FALSE]
    /\ mon_running
    /\ watched_paths # {}
    /\ Missing \notin watched_paths

\* The poll loops that have been started and have not exited.
ActivePollLoops == {p \in Pollers : tail[p].pc # "off"}

\* C18: in poll-driven mode start() on a running tailer changes nothing,
\* and at every moment at most one poll loop is active, also when start()
\* follows stop() while the earlier loop is still in its sleep.
C18_OnePollLoop ==
    [][/\ (mon_running /\ MonStart) =>
              UNCHANGED <<mon_running, observer, tail, watched_paths>>
       /\ Cardinality(ActivePollLoops') <= 1]_vars

\* C19: remove_watch_path leaves the ring buffer and the entry statistics
\* as they were, and lines written to a file while no watched path covers
\* it (the only writes here) never become entries, in either mode.
C19_UnwatchedIsSilent ==
    [][/\ \A path \in Paths :
              RemoveWatchPath(path) =>
                  /\ entries' = entries
                  /\ stats'.total_entries = stats.total_entries
       /\ produced' = <<>>]_vars

\* C20: no entry is ever produced for a file whose extension is not in the
\* log-extension set and whose name does not contain "log", whatever the
\* case of its letters.
C20_OnlyLogFiles ==
    \A j \in DOMAIN produced :
        LET name == Chars(produced[j].filepath)
        IN \/ Lower(Suffix(name)) \in LOG_EXTENSIONS
           \/ Contains(Lower(name), <<"l", "o", "g">>)


\* The patterns of one level group, as a set.
Keywords(level) ==
    UNION {{g.patterns[k] : k \in DOMAIN g.patterns} :
           g \in {LEVEL_PATTERNS[j] : j \in {j \in DOMAIN LEVEL_PATTERNS :
                                               LEVEL_PATTERNS[j].level = level}}}

Mentions(content, level) ==
    \E k \in Keywords(level) : Contains(Lower(content), k)

\* C21: the level of a line is the first group, in the order error, warning,
\* info, debug, one of whose keywords occurs in the line as a substring
\* whatever the case of the letters, and it is unset when no keyword occurs.
C21_FirstGroupWins ==
    mret.op = "_detect_level" =>
        mret.level = IF Mentions(mret.content, "error") THEN "error"
                     ELSE IF Mentions(mret.content, "warning") THEN "warning"
                     ELSE IF Mentions(mret.content, "info") THEN "info"
                     ELSE IF Mentions(mret.content, "debug") THEN "debug"
                     ELSE None

\* a line that names a warning first and an error, in capitals, after it
C21_ErrorBeatsWarning ==
    /\ mret.op = "_detect_level"
    /\ mret.level = "error"
    /\ Mentions(mret.content, "warning")
    /\ ~ Contains(mret.content, <<"e", "r", "r">>)
    /\ ~ Contains(mret.content, <<"f", "a", "i", "l">>)


\* A token the caller was given, not revoked since, whose expiry has not passed.
Live(token) ==
    /\ token \in DOMAIN issued
    /\ issued[token].returned
    /\ ~ issued[token].revoked
    /\ issued[token].expiry # <<>> => now <= issued[token].expiry[1]

\* C22: validate_token(t) returns True exactly when t was returned by
\* generate_token, the token of that name has not been revoked since and its
\* expiry, if any, has not passed; a revoked token is never valid again;
\* revoke_token of an unknown name returns False and changes nothing.
C22_ValidExactlyWhenLive ==
    [][/\ \A token \in Held, update_last_used \in BOOLEAN :
              ValidateToken(token, update_last_used) =>
                  (ret'[Main].value <=> Live(token))
       /\ \A name \in TokenNames :
              (RevokeToken(name) /\ \A h \in DOMAIN tokens : tokens[h].name # name) =>
                  /\ ret'[Main] = [op |-> "revoke_token", raised |-> None,
                                    value |-> FALSE]
                  /\ UNCHANGED <<tokens, token_file>>]_vars


\* C23: while a thread is in the loop over the callbacks of receive_event
\* the lock is not held, so that another thread's receive_event can take
\* the lock and get_recent_events can run.
C23_CallbacksRunUnlocked ==
    \A t \in Threads :
        pc[t] = "rx_notify" =>
            /\ lock = None
            /\ \A u \in Threads \ {t} : pc[u] = "rx_lock" => ENABLED ReceiveLocked(u)
            /\ ENABLED GetRecentEvents(MaxCount, None, None)

\* t1 has a callback still to call for its event, and since it appended
\* the event t2 has received another and returned, and get_recent_events
\* has returned both
C23_OthersCompleted ==
    /\ pc["t1"] = "rx_notify"
    /\ idx["t1"] <= Len(callbacks)
    /\ pc["t2"] = "idle"
    /\ ret[Main].op = "events"
    /\ \E i, j \in DOMAIN ret[Main].events :
           /\ i < j
           /\ ret[Main].events[i].id = cur["t1"].id


NonDecreasing(buf) ==
    \A i, j \in DOMAIN buf : i < j => buf[i].timestamp <= buf[j].timestamp

\* C24: an event's timestamp is the time of its insertion under the lock,
\* so both buffers are always in non-decreasing timestamp order and, after
\* a pruning, the rate window holds no event older than the cutoff now - W.
C24_StampedAtInsertion ==
    [][/\ \A t \in Threads : ReceiveLocked(t) => cur[t].timestamp = now
       /\ NonDecreasing(events')
       /\ NonDecreasing(window_events')
       /\ CleanLocked(Worker) =>
              \A i \in DOMAIN window_events' :
                  window_events'[i].timestamp >= local[Worker].cutoff]_vars


\* How many times a subscriber function was called with the event id.
Calls(cb, id) == Cardinality({i \in DOMAIN delivered[cb] : delivered[cb][i] = id})

\* C25: when receive_event returns, every subscriber that was registered
\* when the event was inserted and has not been removed has been called
\* with the event exactly once, also when another thread removes
\* subscribers during the fan-out.
C25_EachSubscriberOnce ==
    [][\A t \in Threads :
          (Notify(t) /\ idx[t] > Len(callbacks)) =>
              \A k \in DOMAIN callbacks : Calls(callbacks[k], cur[t].id) = 1]_vars


\* C26: when a cycle of _handle_file_change ends, every non-empty line it
\* read has its entry, appended and counted, also when the entry callback
\* raises for an earlier line of the batch.
C26_WholeBatchKept ==
    [][\A t \in TailThreads :
          (HfcLine(t) /\ tail'[t].pc # "h_lines") =>
              /\ \A k \in DOMAIN tail[t].new_lines :
                     tail[t].new_lines[k] # 0 =>
                         \E j \in DOMAIN produced' :
                             /\ produced'[j].filepath = tail[t].filepath
                             /\ produced'[j].content = tail[t].new_lines[k]
              /\ stats'.total_entries = Len(produced')]_vars


\* C27: the line_number of every entry is the 1-based position of its line
\* in the file (here files are never truncated, so positions count from
\* the start of the file): it is at least 1 and consecutive lines get
\* consecutive numbers, across observation cycles too.
C27_LineNumberIsPosition ==
    \A j \in DOMAIN produced :
        LET e == produced[j]
        IN /\ e.line_number >= 1
           /\ e.line_number \in DOMAIN fs[e.filepath].lines
           /\ fs[e.filepath].lines[e.line_number] = e.content


\* The entries a step adds to the history for one file.
NewEntriesOf(f) ==
    {j \in DOMAIN produced' : j > Len(produced) /\ produced'[j].filepath = f}

\* C28: scan_existing_logs(path, max_lines) makes at most max_lines entries
\* per file, for every max_lines >= 0, out of the last max_lines lines of
\* the file, and records the end of every file it reads as its offset.
C28_AtMostMaxLines ==
    [][\A path \in {Dir, "app.log"}, n \in ScanSizes :
          ScanExistingLogs(path, n) =>
              \A f \in Files :
                  /\ Cardinality(NewEntriesOf(f)) <= n
                  /\ \A j \in NewEntriesOf(f) :
                         \E k \in DOMAIN fs[f].lines :
                             /\ k > Len(fs[f].lines) - n
                             /\ fs[f].lines[k] = produced'[j].content
                  /\ NewEntriesOf(f) # {} =>
                         file_positions'[f] = Bytes(fs[f].lines)]_vars


AcceptedFrom(name) == {i \in DOMAIN accepted : accepted[i].source = name}

\* C30: once every emit has returned, the event_count of an adapter is the
\* number of events the aggregator accepted from it, also when several
\* threads emit on it at the same time.
C30_NoLostIncrement ==
    (\A t \in Threads : pc[t] = "idle") =>
        \A a \in DOMAIN adapters :
            adapters[a].event_count = Cardinality(AcceptedFrom(adapters[a].name))

====
